---- MODULE Spec2Model ----
(***************************************************************************)
(* Model of the amber simulation kernel (src/src/board.rs,                 *)
(* src/src/component.rs, src/src/pins.rs): the wire engine, the threaded   *)
(* and threadless component drivers, the ping event queue and the          *)
(* half-cycle loop.                                                        *)
(*                                                                         *)
(* Index conventions: Rust vectors are 0-based, TLA+ sequences 1-based.    *)
(* ComponentId, PinId, PinIndex, WireId and the indices into               *)
(* threaded_components / threadless_components are all shifted by one;     *)
(* Option::None for Pin.wire is NoWire (0).                                *)
(***************************************************************************)
EXTENDS Integers, Sequences, FiniteSets, Bags, TLC

(***************************************************************************)
(* Bounds of the model.                                                    *)
(***************************************************************************)
MaxCalls == 3           \* calls of add_component_*, add_wire and set_pin
                        \* made on a board between simulate calls
MaxPinCount == 2        \* T::pin_count() ranges over 1..MaxPinCount
MaxWirePins == 2        \* length of the pin list given to add_wire
MaxCycles == 2          \* cycles run over all simulate calls
MaxPing == 2            \* advance returns None, Some(0) or Some(MaxPing)
MaxCount == 3           \* counts explored for WireStateCounter on its own
MaxOutputs == 1         \* hook calls that return a nonempty output change list
MaxPings == 2           \* advance calls that return Some(t)
MaxInbox == 2           \* messages put into a worker's inbox taken on its own
MaxFaults == 1          \* worker faults in one run: a panic or a stray Done

\* u8 arithmetic of the WireStateCounter fields (release build: wrapping)
U8 == 256
\* Board::new: clock_period = 5e8 / freq, in the model's time unit
clock_period == 1

NoWire == 0

\* the times a modelled advance asks to be pinged at
PingTimes == {0, MaxPing}

PinState == {"Z", "Low", "High", "WeakLow", "WeakHigh", "Error"}
\* states the modelled components put into their output change lists
OutStates == {"Z", "Low", "High"}

Range(s) == {s[i] : i \in 1..Len(s)}

(***************************************************************************)
(* WireStateCounter                                                        *)
(***************************************************************************)
ZeroCounter == [low |-> 0, high |-> 0, weak_low |-> 0, weak_high |-> 0]

\* add with an Error arm that counts the pin as a Low only
add_error_low_only(c, pin) ==
    CASE pin = "Low" -> [c EXCEPT !.low = (@ + 1) % U8]
      [] pin = "High" -> [c EXCEPT !.high = (@ + 1) % U8]
      [] pin = "WeakLow" -> [c EXCEPT !.weak_low = (@ + 1) % U8]
      [] pin = "WeakHigh" -> [c EXCEPT !.weak_high = (@ + 1) % U8]
      [] pin = "Z" -> c
      [] pin = "Error" -> [c EXCEPT !.low = (@ + 1) % U8]

\* WireStateCounter::add
add(c, pin) ==
    CASE pin = "Low" -> [c EXCEPT !.low = (@ + 1) % U8]
      [] pin = "High" -> [c EXCEPT !.high = (@ + 1) % U8]
      [] pin = "WeakLow" -> [c EXCEPT !.weak_low = (@ + 1) % U8]
      [] pin = "WeakHigh" -> [c EXCEPT !.weak_high = (@ + 1) % U8]
      [] pin = "Z" -> c
      [] pin = "Error" -> [c EXCEPT !.low = (@ + 1) % U8, !.high = (@ + 1) % U8]

\* WireStateCounter::remove
remove(c, pin) ==
    CASE pin = "Low" -> [c EXCEPT !.low = (@ + U8 - 1) % U8]
      [] pin = "High" -> [c EXCEPT !.high = (@ + U8 - 1) % U8]
      [] pin = "WeakLow" -> [c EXCEPT !.weak_low = (@ + U8 - 1) % U8]
      [] pin = "WeakHigh" -> [c EXCEPT !.weak_high = (@ + U8 - 1) % U8]
      [] pin = "Z" -> c
      [] pin = "Error" -> [c EXCEPT !.low = (@ + U8 - 1) % U8,
                                    !.high = (@ + U8 - 1) % U8]

\* read with the two weak arms matching any strong counts
read_weak_first(c) ==
    IF c.low = 0 /\ c.high = 0 /\ c.weak_low = 0 /\ c.weak_high = 0 THEN "Z"
    ELSE IF c.weak_low = 0 /\ c.weak_high > 0 THEN "WeakHigh"
    ELSE IF c.weak_high = 0 /\ c.weak_low > 0 THEN "WeakLow"
    ELSE IF c.low = 0 /\ c.high = 0 THEN "Error"
    ELSE IF c.low = 0 THEN "High"
    ELSE IF c.high = 0 THEN "Low"
    ELSE "Error"

\* the match arms of WireStateCounter::read, tried in order
read(c) ==
    IF c.low = 0 /\ c.high = 0 /\ c.weak_low = 0 /\ c.weak_high = 0 THEN "Z"
    ELSE IF c.low = 0 /\ c.high = 0 /\ c.weak_low = 0 THEN "WeakHigh"
    ELSE IF c.low = 0 /\ c.high = 0 /\ c.weak_high = 0 THEN "WeakLow"
    ELSE IF c.low = 0 /\ c.high = 0 THEN "Error"
    ELSE IF c.low = 0 THEN "High"
    ELSE IF c.high = 0 THEN "Low"
    ELSE "Error"

\* Wire::read
WireRead(wire) == read(wire.counter)

(***************************************************************************)
(* Messages                                                                *)
(***************************************************************************)
PinChange(c, pin, state) == [type |-> "PinChange", id |-> c, pin |-> pin,
                             state |-> state, time |-> 0, changed |-> FALSE]
Step(t) == [type |-> "Step", id |-> 0, pin |-> 0, state |-> "Z", time |-> t,
            changed |-> FALSE]
PingMeAt(c, t) == [type |-> "PingMeAt", id |-> c, pin |-> 0, state |-> "Z",
                   time |-> t, changed |-> FALSE]
\* Done(id, false)
Done(c) == [type |-> "Done", id |-> c, pin |-> 0, state |-> "Z", time |-> 0,
            changed |-> FALSE]
ClockRising == [type |-> "ClockRising", id |-> 0, pin |-> 0, state |-> "Z",
                time |-> 0, changed |-> FALSE]
ClockFalling == [type |-> "ClockFalling", id |-> 0, pin |-> 0, state |-> "Z",
                 time |-> 0, changed |-> FALSE]
Die == [type |-> "Die", id |-> 0, pin |-> 0, state |-> "Z", time |-> 0,
        changed |-> FALSE]

PingEvent(c, t) == [id |-> c, at |-> t]

(***************************************************************************)
(* VcdTree, VcdForest and VcdWriter                                        *)
(***************************************************************************)
\* vec![33]: the first byte of a short identifier
FirstIdByte == 33
\* the byte value at which next_id carries
IdByteLimit == 127

RECURSIVE IncrementId_no_push(_, _)
\* the labelled block of next_id without wire_id.push(33)
IncrementId_no_push(wire_id, i) ==
    IF i = 0 THEN wire_id
    ELSE IF wire_id[i] + 1 = IdByteLimit
         THEN IncrementId_no_push([wire_id EXCEPT ![i] = FirstIdByte], i - 1)
         ELSE [wire_id EXCEPT ![i] = @ + 1]

RECURSIVE IncrementId(_, _)
\* the labelled block of next_id: one is added from the last byte backwards,
\* a byte reaching 127 goes back to 33 and carries, and a carry out of the
\* first byte pushes a 33
IncrementId(wire_id, i) ==
    IF i = 0 THEN Append(wire_id, FirstIdByte)
    ELSE IF wire_id[i] + 1 = IdByteLimit
         THEN IncrementId([wire_id EXCEPT ![i] = FirstIdByte], i - 1)
         ELSE [wire_id EXCEPT ![i] = @ + 1]

\* VcdWriter::next_id: the identifier is the bytes before the increment
next_id(wire_id) ==
    [result |-> wire_id, wire_id |-> IncrementId(wire_id, Len(wire_id))]

\* PinState::to_pin_vec / PinVec::new(size, val)
PinVecOf(size, val) == [i \in 1..size |-> val]

\* VcdTreeSignal::new; id None is the empty sequence
VcdTreeSignal(size, val) ==
    [size |-> size, id |-> <<>>, old_state |-> PinVecOf(size, val),
     new_state |-> PinVecOf(size, val)]

\* the three shapes of VcdTree; a Module holds signals only, in declaration
\* order
SignalTree(size, val) == [type |-> "Signal", signals |-> <<VcdTreeSignal(size, val)>>]
ModuleTree(signals) == [type |-> "Module", signals |-> signals]
DisabledTree == [type |-> "Disabled", signals |-> <<>>]

\* VcdTreeSignal::update
update(signal, state) ==
    [signal EXCEPT !.old_state = signal.new_state,
                   !.new_state = PinVecOf(signal.size, state)]

\* fill_everything_*: a Disabled tree is left alone, a Signal is updated with
\* get_signal_state, a Module has every child updated by fill_module; the
\* result is the tree and the OR of the updates' results
fill_everything(tree, vals) ==
    IF tree.type = "Disabled" THEN [tree |-> tree, changed |-> FALSE]
    ELSE LET signals == [k \in 1..Len(tree.signals) |->
                            update(tree.signals[k], vals[k])]
         IN [tree |-> [tree EXCEPT !.signals = signals],
             changed |-> \E k \in 1..Len(signals) :
                            signals[k].old_state # signals[k].new_state]

\* one line of the file
Line(kind, id, val, t) == [kind |-> kind, id |-> id, val |-> val, t |-> t]

\* VcdWriter::new: counter 1, wire_id [33], an empty forest
NewWriter(period) ==
    [f |-> <<>>, wire_id |-> <<FirstIdByte>>, forest |-> <<>>, counter |-> 1,
     period |-> period, panicked |-> FALSE]

\* VcdForest::add_threaded / add_threadless
forest_add(w, name, tree) ==
    [w EXCEPT !.forest = Append(@, [name |-> name, changed |-> FALSE,
                                    tree |-> tree])]

RECURSIVE WriteScopeSignals(_, _, _)
\* write_scope on the signals of forest entry k: a $var line with a fresh
\* identifier for each, which becomes the signal's id
WriteScopeSignals(w, k, s) ==
    IF s > Len(w.forest[k].tree.signals) THEN w
    ELSE LET r == next_id(w.wire_id)
         IN WriteScopeSignals(
                [w EXCEPT !.wire_id = r.wire_id,
                          !.f = Append(@, Line("var", r.result,
                                     <<>>, w.forest[k].tree.signals[s].size)),
                          !.forest[k].tree.signals[s].id = r.result],
                k, s + 1)

\* VcdWriter::write_scope on forest entry k
write_scope(w, k) ==
    CASE w.forest[k].tree.type = "Module" ->
             LET w1 == [w EXCEPT !.f = Append(@, Line("scope", <<>>, <<>>, k))]
                 w2 == WriteScopeSignals(w1, k, 1)
             IN [w2 EXCEPT !.f = Append(@, Line("upscope", <<>>, <<>>, k))]
      [] w.forest[k].tree.type = "Signal" -> WriteScopeSignals(w, k, 1)
      [] w.forest[k].tree.type = "Disabled" -> w

RECURSIVE WriteScopeTrees(_, _)
WriteScopeTrees(w, k) ==
    IF k > Len(w.forest) THEN w ELSE WriteScopeTrees(write_scope(w, k), k + 1)

\* VcdWriter::write_scope_forest
write_scope_forest(w) ==
    LET w1 == [w EXCEPT !.f = Append(@, Line("scope", <<>>, <<>>, 0))]
        w2 == WriteScopeTrees(w1, 1)
    IN [w2 EXCEPT !.f = Append(@, Line("upscope", <<>>, <<>>, 0))]

\* VcdWriter::state_to_char
state_to_char(state) ==
    CASE state = "Z" -> "z"
      [] state \in {"Low", "WeakLow"} -> "0"
      [] state \in {"High", "WeakHigh"} -> "1"
      [] state = "Error" -> "x"

\* VcdWriter::state_vec_to_char
state_vec_to_char(vec) == [i \in 1..Len(vec) |-> state_to_char(vec[i])]

RECURSIVE WriteDataSignals_every(_, _, _, _)
\* write_data writing every signal of a flagged tree
WriteDataSignals_every(w, k, s, dumpvars) ==
    IF s > Len(w.forest[k].tree.signals) THEN w
    ELSE LET signal == w.forest[k].tree.signals[s]
         IN IF signal.id = <<>> THEN [w EXCEPT !.panicked = TRUE]
            ELSE WriteDataSignals_every(
                     [w EXCEPT !.f = Append(@, Line("value", signal.id,
                                  state_vec_to_char(signal.new_state), 0))],
                     k, s + 1, dumpvars)

RECURSIVE WriteDataSignals(_, _, _, _)
\* write_data on the signals of forest entry k: a signal with an id is
\* written when dumping or when its two states differ; one without an id
\* falls to the panic arm
WriteDataSignals(w, k, s, dumpvars) ==
    IF s > Len(w.forest[k].tree.signals) THEN w
    ELSE LET signal == w.forest[k].tree.signals[s]
         IN IF signal.id = <<>> THEN [w EXCEPT !.panicked = TRUE]
            ELSE WriteDataSignals(
                     IF dumpvars \/ signal.old_state # signal.new_state
                     THEN [w EXCEPT !.f = Append(@, Line("value", signal.id,
                                  state_vec_to_char(signal.new_state), 0))]
                     ELSE w,
                     k, s + 1, dumpvars)

\* VcdWriter::write_data on forest entry k; a Disabled tree panics
write_data(w, k, dumpvars) ==
    IF w.forest[k].tree.type = "Disabled" THEN [w EXCEPT !.panicked = TRUE]
    ELSE WriteDataSignals(w, k, 1, dumpvars)

RECURSIVE WriteDataTrees_keep_flags(_, _, _)
\* write_data_forest without guard.changed = false
WriteDataTrees_keep_flags(w, k, dumpvars) ==
    IF k > Len(w.forest) \/ w.panicked THEN w
    ELSE LET w1 == IF dumpvars \/ w.forest[k].changed
                   THEN write_data(w, k, dumpvars) ELSE w
         IN WriteDataTrees_keep_flags(w1, k + 1, dumpvars)

RECURSIVE WriteDataTrees(_, _, _)
\* the loop of write_data_forest: a tree is written when dumping or when its
\* handle is flagged, and the flag is cleared
WriteDataTrees(w, k, dumpvars) ==
    IF k > Len(w.forest) \/ w.panicked THEN w
    ELSE LET w1 == IF dumpvars \/ w.forest[k].changed
                   THEN write_data(w, k, dumpvars) ELSE w
         IN WriteDataTrees(IF w1.panicked THEN w1
                           ELSE [w1 EXCEPT !.forest[k].changed = FALSE],
                           k + 1, dumpvars)

\* VcdWriter::write_data_forest
write_data_forest(w, dumpvars) == WriteDataTrees(w, 1, dumpvars)

\* VcdWriter::write_header
write_header(w) ==
    LET w1 == [w EXCEPT !.f = @ \o <<Line("version", <<>>, <<>>, 0),
                                     Line("date", <<>>, <<>>, 0),
                                     Line("timescale", <<>>, <<>>, 1)>>]
        w2 == write_scope_forest(w1)
        w3 == [w2 EXCEPT !.f = @ \o <<Line("enddefinitions", <<>>, <<>>, 0),
                                      Line("dumpvars", <<>>, <<>>, 0)>>]
        w4 == write_data_forest(w3, TRUE)
    IN IF w4.panicked THEN w4
       ELSE [w4 EXCEPT !.f = Append(@, Line("end", <<>>, <<>>, 0))]

\* VcdWriter::has_changed
has_changed(w) == \E k \in 1..Len(w.forest) : w.forest[k].changed

\* (counter as f64 * period).round() as u64, the period being the fraction
\* period[1] / period[2] of a nanosecond; round is half away from zero
Stamp(counter, period) ==
    (2 * counter * period[1] + period[2]) \div (2 * period[2])

\* write_step writing its timestamp line on every call
write_step_always(w) ==
    LET w1 == [w EXCEPT !.f = Append(@, Line("time", <<>>, <<>>,
                                             Stamp(w.counter, w.period))),
                        !.counter = @ + 1]
    IN write_data_forest(w1, FALSE)

\* VcdWriter::write_step
write_step(w) ==
    IF has_changed(w)
    THEN LET w1 == [w EXCEPT !.f = Append(@, Line("time", <<>>, <<>>,
                                                  Stamp(w.counter, w.period))),
                             !.counter = @ + 1]
         IN write_data_forest(w1, FALSE)
    ELSE [w EXCEPT !.counter = @ + 1]

\* VcdWriter::set_change: the handle of the component is flagged
set_change(w, id) == [w EXCEPT !.forest[id].changed = TRUE]

(***************************************************************************)
(* State                                                                   *)
(***************************************************************************)
VARIABLES
    pins,                           \* Board.pins : Seq of Pin
    wires,                          \* Board.wires : Seq of Wire
    common_component_data,          \* Board.common_component_data
    threaded_components,            \* Board.threaded_components (id, is_changed)
    threadless_components,          \* Board.threadless_components (id)
    threaded_components_changed,    \* Board.threaded_components_changed
    input_ch,                       \* per threaded component: board -> worker channel
    output_ch,                      \* the shared worker -> board channel
    events,                         \* Board.events, the BinaryHeap, as a bag
    clock_pin,                      \* Board.clock_pin
    time_ns,                        \* simulate's local time_ns
    remaining,                      \* iterations left in simulate's loop
    pc,                             \* board thread: "idle" or "collect"
    done_counter,                   \* handle_messages' done_counter
    panicked,                       \* the board thread has panicked
    thread,                         \* per threaded component: its worker thread,
                                    \* "running", "exited" or "panicked"
    dropping,                       \* drop of the board: 0 before it, then the
                                    \* threaded component being dropped
    awaiting,                       \* threaded components sent a Step whose Done
                                    \* the board has not received
    delivered,                      \* per pin: last state handed to its component
    unstepped,                      \* threaded components sent a PinChange since
                                    \* their last Step
    budget,                         \* calls made so far, for the bounds
    lastOp,                         \* what the last board operation did
    ctr,                            \* a WireStateCounter taken on its own
    ctr_read,                       \* the result of its last read
    vcd_module,                     \* the children of a VcdTreeModule taken on
                                    \* its own, each a VcdTreeSignal
    fill_result,                    \* what its last fill_module returned
    vcd,                            \* Board.vcd_writer, with the trees its
                                    \* forest shares with the components
    led_state                       \* per threaded component: Led.state, the
                                    \* last state its set_pin was given

vars == <<pins, wires, common_component_data, threaded_components,
          threadless_components, threaded_components_changed, input_ch,
          output_ch, events, clock_pin, time_ns, remaining, pc, done_counter,
          panicked, thread, dropping, awaiting, delivered, unstepped, budget,
          lastOp, ctr, ctr_read, vcd_module, fill_result, vcd, led_state>>

\* the part of the state the wire engine's functions work on
Board == [pins |-> pins, wires |-> wires,
          common_component_data |-> common_component_data,
          threaded_components |-> threaded_components,
          threadless_components |-> threadless_components,
          threaded_components_changed |-> threaded_components_changed,
          input_ch |-> input_ch, events |-> events, thread |-> thread,
          delivered |-> delivered, unstepped |-> unstepped,
          notified |-> <<>>, hooks |-> <<>>, panicked |-> FALSE,
          vcd |-> vcd]

Commit(b) ==
    /\ pins' = b.pins
    /\ wires' = b.wires
    /\ common_component_data' = b.common_component_data
    /\ threaded_components' = b.threaded_components
    /\ threadless_components' = b.threadless_components
    /\ threaded_components_changed' = b.threaded_components_changed
    /\ input_ch' = b.input_ch
    /\ events' = b.events
    /\ thread' = b.thread
    /\ delivered' = b.delivered
    /\ unstepped' = b.unstepped
    /\ panicked' = (b.panicked \/ b.vcd.panicked)
    /\ vcd' = b.vcd

\* no fill_module call made yet
NoFill == [op |-> "none", results |-> <<>>, r |-> FALSE]

NoOp == [op |-> "none", pin |-> 0, state |-> "Z", old_state |-> "Z",
         list |-> <<>>,
         notified |-> <<>>, old_out |-> "Z", new_out |-> "Z",
         stepped |-> <<>>, unstepped |-> {}, now |-> 0,
         peeks |-> <<>>, before |-> EmptyBag, hooks |-> <<>>,
         flagged |-> {}, alt |-> [input_ch |-> <<>>, changed |-> <<>>, wires |-> <<>>,
                  wires_in_step_order |-> <<>>, arrivals |-> <<>>]]

(***************************************************************************)
(* Notifications                                                           *)
(***************************************************************************)
\* ThreadedComponentData::notify_on_pin_change on threaded_components[t];
\* index is the board-global index of the pin
\* the board thread stops at its first panic; send returns Err, and expect
\* panics, once the worker has left execute_loop and dropped input_rx
notify_on_pin_change(b, t, index, pin, state) ==
    IF b.panicked THEN b
    ELSE IF b.thread[t] # "running"
    THEN [b EXCEPT !.threaded_components[t].is_changed = TRUE,
                   !.panicked = TRUE]
    ELSE
    [b EXCEPT !.threaded_components[t].is_changed = TRUE,
              !.input_ch[t] = Append(@, PinChange(b.threaded_components[t].id,
                                                  pin, state)),
              !.delivered[index] = state,
              !.unstepped = @ \cup {t},
              !.notified = Append(@, [component |-> b.threaded_components[t].id,
                                      pin |-> pin, state |-> state])]

\* ThreadlessComponentData::set_pin on threadless_components[t]
threadless_set_pin(b, t, index, pin, state) ==
    IF b.panicked THEN b ELSE
    [b EXCEPT !.delivered[index] = state,
              !.notified = Append(@, [component |-> b.threadless_components[t].id,
                                      pin |-> pin, state |-> state])]

\* ThreadedComponentData::notify_step
notify_step(b, t, time) ==
    IF b.panicked THEN b
    ELSE IF b.thread[t] # "running" THEN [b EXCEPT !.panicked = TRUE]
    ELSE
    [b EXCEPT !.input_ch[t] = Append(@, Step(time)),
              !.unstepped = @ \ {t}]

(***************************************************************************)
(* Board construction                                                      *)
(***************************************************************************)
RECURSIVE add_pins(_, _, _, _)
\* Board::add_pins, the loop `for id in 0..pins_count` from id on
add_pins(b, id, pins_count, component_id) ==
    IF id > pins_count THEN b
    ELSE add_pins(
        [b EXCEPT !.common_component_data[component_id].pins =
                      Append(@, Len(b.pins) + 1),
                  !.pins = Append(@, [id |-> id, component |-> component_id,
                                      wire |-> NoWire, out_state |-> "Z"]),
                  !.delivered = Append(@, "none")],
        id + 1, pins_count, component_id)

RECURSIVE NotifyInitial(_, _, _, _, _)
\* the loops `for id in 0..pins_count { c.notify_on_pin_change(id, Z) }` and
\* `for id in 0..pins_count { c.set_pin(id, Z) }` of the two add_component_*
NotifyInitial(b, component_id, id, pins_count, state) ==
    IF id > pins_count THEN b
    ELSE LET data == b.common_component_data[component_id]
             index == data.pins[id]
             nb == IF data.is_threaded
                   THEN notify_on_pin_change(b, data.index, index, id, state)
                   ELSE threadless_set_pin(b, data.index, index, id, state)
         IN NotifyInitial(nb, component_id, id + 1, pins_count, state)

\* name is the component's name in the forest and vcd_init the tree its
\* init_vcd(config) returns
add_component_threaded(b, pins_count, name, vcd_init) ==
    LET component_id == Len(b.common_component_data) + 1
        b1 == [b EXCEPT !.common_component_data =
                   Append(@, [index |-> Len(b.threaded_components) + 1,
                              is_threaded |-> TRUE, pins |-> <<>>])]
        b2 == add_pins(b1, 1, pins_count, component_id)
        b3 == [b2 EXCEPT !.vcd = forest_add(@, name, vcd_init),
                         !.threaded_components =
                   Append(@, [id |-> component_id, is_changed |-> TRUE]),
                         !.input_ch = Append(@, <<>>),
                         !.thread = Append(@, "running")]
    IN NotifyInitial(b3, component_id, 1, pins_count, "Z")

add_component_clocked(b, pins_count, name, vcd_init) ==
    LET component_id == Len(b.common_component_data) + 1
        b1 == [b EXCEPT !.common_component_data =
                   Append(@, [index |-> Len(b.threadless_components) + 1,
                              is_threaded |-> FALSE, pins |-> <<>>])]
        b2 == add_pins(b1, 1, pins_count, component_id)
        b3 == [b2 EXCEPT !.vcd = forest_add(@, name, vcd_init),
                         !.threadless_components =
                   Append(@, [id |-> component_id])]
    IN NotifyInitial(b3, component_id, 1, pins_count, "Z")

RECURSIVE AddWireAttach_no_assert(_, _, _, _, _)
\* the first loop of add_wire without its assert
AddWireAttach_no_assert(b, wire, wire_id, list, k) ==
    IF k > Len(list) THEN [b |-> b, wire |-> wire]
    ELSE LET index == b.common_component_data[list[k][1]].pins[list[k][2]]
             pin == b.pins[index]
             w1 == [counter |-> add(wire.counter, pin.out_state),
                    pins |-> Append(wire.pins, index)]
         IN AddWireAttach_no_assert([b EXCEPT !.pins[index].wire = wire_id],
                                    w1, wire_id, list, k + 1)

RECURSIVE AddWireAttach_no_push(_, _, _, _, _)
\* the first loop of add_wire without wire.pins.push(index)
AddWireAttach_no_push(b, wire, wire_id, list, k) ==
    IF k > Len(list) THEN [b |-> b, wire |-> wire]
    ELSE LET index == b.common_component_data[list[k][1]].pins[list[k][2]]
             pin == b.pins[index]
             w1 == [counter |-> add(wire.counter, pin.out_state),
                    pins |-> wire.pins]
         IN IF pin.wire # NoWire
            THEN [b |-> [b EXCEPT !.panicked = TRUE], wire |-> w1]
            ELSE AddWireAttach_no_push([b EXCEPT !.pins[index].wire = wire_id],
                                       w1, wire_id, list, k + 1)

RECURSIVE AddWireAttach_no_seed(_, _, _, _, _)
\* the first loop of add_wire without wire.counter.add(pin.out_state)
AddWireAttach_no_seed(b, wire, wire_id, list, k) ==
    IF k > Len(list) THEN [b |-> b, wire |-> wire]
    ELSE LET index == b.common_component_data[list[k][1]].pins[list[k][2]]
             pin == b.pins[index]
             w1 == [counter |-> wire.counter,
                    pins |-> Append(wire.pins, index)]
         IN IF pin.wire # NoWire
            THEN [b |-> [b EXCEPT !.panicked = TRUE], wire |-> w1]
            ELSE AddWireAttach_no_seed([b EXCEPT !.pins[index].wire = wire_id],
                                       w1, wire_id, list, k + 1)

RECURSIVE AddWireAttach(_, _, _, _, _)
\* first loop of Board::add_wire over pins[k..]; returns the board and the
\* wire under construction.  The assert comes after the push and the add and
\* before the assignment of pin.wire; a panic leaves the earlier iterations'
\* writes in place.
AddWireAttach(b, wire, wire_id, list, k) ==
    IF k > Len(list) THEN [b |-> b, wire |-> wire]
    ELSE LET index == b.common_component_data[list[k][1]].pins[list[k][2]]
             pin == b.pins[index]
             w1 == [counter |-> add(wire.counter, pin.out_state),
                    pins |-> Append(wire.pins, index)]
         IN IF pin.wire # NoWire
            THEN [b |-> [b EXCEPT !.panicked = TRUE], wire |-> w1]
            ELSE AddWireAttach([b EXCEPT !.pins[index].wire = wire_id],
                               w1, wire_id, list, k + 1)

RECURSIVE AddWireNotify_first_only(_, _, _, _)
\* the second loop of add_wire stopping after the first listed pin
AddWireNotify_first_only(b, list, k, wire_state) ==
    IF k > Len(list) \/ k > 1 THEN b
    ELSE LET data == b.common_component_data[list[k][1]]
             pin_id == list[k][2]
             index == data.pins[pin_id]
             nb == IF data.is_threaded
                   THEN notify_on_pin_change(b, data.index, index, pin_id,
                                             wire_state)
                   ELSE threadless_set_pin(b, data.index, index, pin_id,
                                           wire_state)
         IN AddWireNotify_first_only(nb, list, k + 1, wire_state)

RECURSIVE AddWireNotify(_, _, _, _)
\* second loop of Board::add_wire
AddWireNotify(b, list, k, wire_state) ==
    IF k > Len(list) THEN b
    ELSE LET data == b.common_component_data[list[k][1]]
             pin_id == list[k][2]
             index == data.pins[pin_id]
             nb == IF data.is_threaded
                   THEN notify_on_pin_change(b, data.index, index, pin_id,
                                             wire_state)
                   ELSE threadless_set_pin(b, data.index, index, pin_id,
                                           wire_state)
         IN AddWireNotify(nb, list, k + 1, wire_state)

\* Board::add_wire; list is a sequence of <<ComponentId, PinId>>
add_wire(b, list) ==
    LET wire_id == Len(b.wires) + 1
        r == AddWireAttach(b, [counter |-> ZeroCounter, pins |-> <<>>],
                           wire_id, list, 1)
    IN IF r.b.panicked THEN r.b
       ELSE AddWireNotify([r.b EXCEPT !.wires = Append(@, r.wire)],
                          list, 1, WireRead(r.wire))

(***************************************************************************)
(* Wire engine                                                             *)
(***************************************************************************)
\* Board::update_pin_output
update_pin_output(b, index, state) ==
    [b |-> [b EXCEPT !.pins[index].out_state = state],
     old_state |-> b.pins[index].out_state,
     wire |-> b.pins[index].wire]

\* update_wire that adds the new state and leaves the old one counted
update_wire_keep_old(b, wire_index, old_state, new_state) ==
    LET wire == b.wires[wire_index]
        counter == IF old_state # new_state
                   THEN add(wire.counter, new_state)
                   ELSE wire.counter
    IN [b |-> [b EXCEPT !.wires[wire_index].counter = counter],
        old_out_state |-> read(wire.counter),
        new_out_state |-> read(counter)]

\* update_wire that drops what the other pins of the wire drive
update_wire_last_wins(b, wire_index, old_state, new_state) ==
    LET wire == b.wires[wire_index]
        counter == IF old_state # new_state
                   THEN add(ZeroCounter, new_state)
                   ELSE wire.counter
    IN [b |-> [b EXCEPT !.wires[wire_index].counter = counter],
        old_out_state |-> read(wire.counter),
        new_out_state |-> read(counter)]

\* Board::update_wire
update_wire(b, wire_index, old_state, new_state) ==
    LET wire == b.wires[wire_index]
        counter == IF old_state # new_state
                   THEN add(remove(wire.counter, old_state), new_state)
                   ELSE wire.counter
    IN [b |-> [b EXCEPT !.wires[wire_index].counter = counter],
        old_out_state |-> read(wire.counter),
        new_out_state |-> read(counter)]

RECURSIVE UpdatePinsInputsLoop_no_dedup(_, _, _, _)
\* the loop of update_pins_inputs without the contains() test
UpdatePinsInputsLoop_no_dedup(b, wire_index, k, new_out_state) ==
    IF k > Len(b.wires[wire_index].pins) THEN b
    ELSE LET pin_index == b.wires[wire_index].pins[k]
             pin_id == b.pins[pin_index].id
             data == b.common_component_data[b.pins[pin_index].component]
             b1 == [b EXCEPT !.threaded_components_changed =
                                 Append(@, data.index)]
             nb == IF data.is_threaded
                   THEN notify_on_pin_change(b1, data.index, pin_index, pin_id,
                                             new_out_state)
                   ELSE threadless_set_pin(b, data.index, pin_index, pin_id,
                                           new_out_state)
         IN UpdatePinsInputsLoop_no_dedup(nb, wire_index, k + 1, new_out_state)

RECURSIVE UpdatePinsInputsLoop(_, _, _, _)
\* the loop of Board::update_pins_inputs over wires[wire_index].pins[k..]
UpdatePinsInputsLoop(b, wire_index, k, new_out_state) ==
    IF k > Len(b.wires[wire_index].pins) THEN b
    ELSE LET pin_index == b.wires[wire_index].pins[k]
             pin_id == b.pins[pin_index].id
             data == b.common_component_data[b.pins[pin_index].component]
             b1 == IF data.index \in Range(b.threaded_components_changed)
                   THEN b
                   ELSE [b EXCEPT !.threaded_components_changed =
                                      Append(@, data.index)]
             nb == IF data.is_threaded
                   THEN notify_on_pin_change(b1, data.index, pin_index, pin_id,
                                             new_out_state)
                   ELSE threadless_set_pin(b, data.index, pin_index, pin_id,
                                           new_out_state)
         IN UpdatePinsInputsLoop(nb, wire_index, k + 1, new_out_state)

\* update_pins_inputs that treats contention as a fatal error
update_pins_inputs_fatal(b, wire_index, old_out_state, new_out_state) ==
    IF new_out_state # old_out_state
    THEN IF new_out_state = "Error"
         THEN [b EXCEPT !.panicked = TRUE]
         ELSE UpdatePinsInputsLoop(b, wire_index, 1, new_out_state)
    ELSE b

\* update_pins_inputs whose loop misses the first pin of the wire
update_pins_inputs_skip_first(b, wire_index, old_out_state, new_out_state) ==
    IF new_out_state # old_out_state
    THEN UpdatePinsInputsLoop(b, wire_index, 2, new_out_state)
    ELSE b

\* update_pins_inputs without the comparison of the two resolved states
update_pins_inputs_always(b, wire_index, old_out_state, new_out_state) ==
    UpdatePinsInputsLoop(b, wire_index, 1, new_out_state)

\* Board::update_pins_inputs
update_pins_inputs(b, wire_index, old_out_state, new_out_state) ==
    IF new_out_state # old_out_state
    THEN UpdatePinsInputsLoop(b, wire_index, 1, new_out_state)
    ELSE b

\* Board::set_pin; a wire index past the end of Board.wires is an
\* index-out-of-bounds panic in update_wire
set_pin(b, pin_index, state) ==
    LET u == update_pin_output(b, pin_index, state)
    IN IF b.panicked THEN b
       ELSE IF u.wire = NoWire THEN u.b
       ELSE IF u.wire > Len(u.b.wires) THEN [u.b EXCEPT !.panicked = TRUE]
       ELSE LET w == update_wire(u.b, u.wire, u.old_state, state)
            IN update_pins_inputs(w.b, u.wire, w.old_out_state, w.new_out_state)

(***************************************************************************)
(* Ping event queue                                                        *)
(***************************************************************************)
\* Ord for PingEvent: f64::total_cmp on the time, the component is ignored
cmp(a, b) == IF a.at < b.at THEN "Less"
             ELSE IF a.at > b.at THEN "Greater"
             ELSE "Equal"

\* BinaryHeap::peek: std's BinaryHeap is a max-heap, its top is a greatest
\* element under Ord (which of several equal ones is unspecified)
peek(heap) ==
    CHOOSE e \in BagToSet(heap) :
        \A f \in BagToSet(heap) : cmp(f, e) # "Greater"

\* smallest time among the pending events
MinAt(heap) ==
    CHOOSE t \in {e.at : e \in BagToSet(heap)} :
        \A e \in BagToSet(heap) : t <= e.at

RECURSIVE handle_events(_, _, _)
\* Board::handle_events; peeks records, for every event the loop examined,
\* its time and the smallest pending time at that moment
handle_events(b, current_time, peeks) ==
    IF b.events = EmptyBag THEN [b |-> b, peeks |-> peeks]
    ELSE LET top == peek(b.events)
             seen == Append(peeks, [at |-> top.at, min |-> MinAt(b.events)])
         IN IF top.at <= current_time
            THEN LET data == b.common_component_data[top.id]
                     b1 == [b EXCEPT !.events = @ (-) SetToBag({top})]
                     b2 == IF data.is_threaded
                           THEN [b1 EXCEPT
                                 !.threaded_components[data.index].is_changed = TRUE]
                           ELSE b1
                 IN handle_events(b2, current_time, seen)
            ELSE [b |-> b, peeks |-> seen]

(***************************************************************************)
(* Half-cycle                                                              *)
(***************************************************************************)
\* what one component may return from get_output_changes: no change or one
ChangeLists(pin_count) ==
    {<<>>} \cup {<<<<p, s>>>> : p \in 1..pin_count, s \in OutStates}

RECURSIVE NotifySteps(_, _, _)
\* `for index in self.threaded_components_changed.drain(..)` of toggle_clock
NotifySteps(b, k, time) ==
    IF k > Len(b.threaded_components_changed)
    THEN [b EXCEPT !.threaded_components_changed = <<>>]
    ELSE NotifySteps(notify_step(b, b.threaded_components_changed[k], time),
                     k + 1, time)

RECURSIVE CollectOutputs(_, _, _)
\* the loop of toggle_clock over the threadless components: outs[c] is the
\* output_changes slice of component c's edge hook; the result is
\* global_output_changes
CollectOutputs(b, outs, c) ==
    IF c > Len(b.threadless_components) THEN <<>>
    ELSE LET id == b.threadless_components[c].id
             staged == [i \in 1..Len(outs[c]) |->
                           <<b.common_component_data[id].pins[outs[c][i][1]],
                             outs[c][i][2]>>]
         IN staged \o CollectOutputs(b, outs, c + 1)

RECURSIVE ReplayOutputs(_, _, _)
\* `for &(index, state) in global_output_changes.iter() { self.set_pin(..) }`
ReplayOutputs(b, changes, k) ==
    IF k > Len(changes) THEN b
    ELSE ReplayOutputs(set_pin(b, changes[k][1], changes[k][2]), changes, k + 1)

RECURSIVE EdgeHooks(_, _, _)
\* the calls of clock_rising_edge / clock_falling_edge made by the loop of
\* toggle_clock over threadless_components[c..]; each call is logged with the
\* number of pin notifications the board has made before it in this
\* half-cycle and with the pin states the components hold when it runs
EdgeHooks(b, c, clock) ==
    IF c > Len(b.threadless_components) THEN b
    ELSE EdgeHooks(
        [b EXCEPT !.hooks = Append(@,
            [component |-> b.threadless_components[c].id,
             edge |-> IF clock THEN "rising" ELSE "falling",
             at |-> Len(b.notified),
             seen |-> b.delivered])],
        c + 1, clock)

RECURSIVE HooksUnstaged(_, _, _, _)
\* a loop over the threadless components that hands each component's output
\* changes to set_pin as soon as its hook has returned
HooksUnstaged(b, outs, c, clock) ==
    IF c > Len(b.threadless_components) THEN b
    ELSE LET id == b.threadless_components[c].id
             logged == [b EXCEPT !.hooks = Append(@,
                           [component |-> id,
                            edge |-> IF clock THEN "rising" ELSE "falling",
                            at |-> Len(b.notified),
                            seen |-> b.delivered])]
             staged == [i \in 1..Len(outs[c]) |->
                           <<b.common_component_data[id].pins[outs[c][i][1]],
                             outs[c][i][2]>>]
         IN HooksUnstaged(ReplayOutputs(logged, staged, 1), outs, c + 1, clock)

\* toggle_clock without the global_output_changes buffer
toggle_clock_unstaged(b, clock, outs, time) ==
    LET h == handle_events(b, time, <<>>)
        stepped == h.b.threaded_components_changed
        b2 == NotifySteps(h.b, 1, time)
    IN [b |-> HooksUnstaged(b2, outs, 1, ~clock),
        clock_pin |-> ~clock,
        done_counter |-> Len(stepped),
        stepped |-> stepped,
        peeks |-> h.peeks]

\* toggle_clock sending the Steps after it has replayed the output changes
toggle_clock_steps_last(b, clock, outs, time) ==
    LET h == handle_events(b, time, <<>>)
        b3 == EdgeHooks(h.b, 1, ~clock)
        global_output_changes == CollectOutputs(b3, outs, 1)
        b4 == ReplayOutputs(b3, global_output_changes, 1)
        stepped == b4.threaded_components_changed
    IN [b |-> NotifySteps(b4, 1, time),
        clock_pin |-> ~clock,
        done_counter |-> Len(stepped),
        stepped |-> stepped,
        peeks |-> h.peeks]

\* toggle_clock that waits for one Done less than it sent Steps
toggle_clock_short_count(b, clock, outs, time) ==
    LET h == handle_events(b, time, <<>>)
        stepped == h.b.threaded_components_changed
        b2 == NotifySteps(h.b, 1, time)
        b3 == EdgeHooks(b2, 1, ~clock)
        global_output_changes == CollectOutputs(b3, outs, 1)
    IN [b |-> ReplayOutputs(b3, global_output_changes, 1),
        clock_pin |-> ~clock,
        done_counter |-> IF Len(stepped) > 0 THEN Len(stepped) - 1 ELSE 0,
        stepped |-> stepped,
        peeks |-> h.peeks]

\* Board::toggle_clock up to the call of handle_messages; clock is
\* self.clock_pin on entry
toggle_clock(b, clock, outs, time) ==
    LET h == handle_events(b, time, <<>>)
        stepped == h.b.threaded_components_changed
        b2 == NotifySteps(h.b, 1, time)
        b3 == EdgeHooks(b2, 1, ~clock)
        global_output_changes == CollectOutputs(b3, outs, 1)
    IN [b |-> ReplayOutputs(b3, global_output_changes, 1),
        clock_pin |-> ~clock,
        done_counter |-> Len(stepped),
        stepped |-> stepped,
        peeks |-> h.peeks]

(***************************************************************************)
(* Initial states                                                          *)
(***************************************************************************)
\* Board::new
new == [pins |-> <<>>, wires |-> <<>>, common_component_data |-> <<>>,
        threaded_components |-> <<>>, threadless_components |-> <<>>,
        threaded_components_changed |-> <<>>, input_ch |-> <<>>,
        events |-> EmptyBag, thread |-> <<>>, delivered |-> <<>>,
        unstepped |-> {}, notified |-> <<>>, hooks |-> <<>>,
        panicked |-> FALSE, vcd |-> NewWriter(<<1, 1>>)]

InitBoard(b) ==
    /\ pins = b.pins
    /\ wires = b.wires
    /\ common_component_data = b.common_component_data
    /\ threaded_components = b.threaded_components
    /\ threadless_components = b.threadless_components
    /\ threaded_components_changed = b.threaded_components_changed
    /\ input_ch = b.input_ch
    /\ events = b.events
    /\ thread = b.thread
    /\ dropping = 0
    /\ awaiting = {}
    /\ delivered = b.delivered
    /\ unstepped = b.unstepped
    /\ panicked = b.panicked
    /\ vcd = b.vcd
    /\ led_state = [t \in 1..Len(b.threaded_components) |-> "Z"]
    /\ output_ch = <<>>
    /\ clock_pin = FALSE
    /\ time_ns = 0
    /\ remaining = 0
    /\ pc = "idle"
    /\ done_counter = 0
    /\ budget = [calls |-> 0, cycles |-> 0, outputs |-> 0, pings |-> 0,
                 faults |-> 0]
    /\ lastOp = NoOp
    /\ ctr = ZeroCounter
    /\ ctr_read = "none"
    /\ vcd_module = <<>>
    /\ fill_result = NoFill

\* a new board, nothing added yet
Init == InitBoard(new)

\* the calls a program makes to build its board before it calls simulate
TV(n, name, tree) == [call |-> "add_component_threaded", n |-> n,
                      list |-> <<>>, state |-> "Z", name |-> name,
                      tree |-> tree]
CV(n, name, tree) == [call |-> "add_component_clocked", n |-> n,
                      list |-> <<>>, state |-> "Z", name |-> name,
                      tree |-> tree]
\* components whose vcd_config is the empty module, as in main.rs
T(n) == TV(n, "free", ModuleTree(<<>>))
C(n) == CV(n, "free", ModuleTree(<<>>))
W(list) == [call |-> "add_wire", n |-> 0, list |-> list, state |-> "Z",
            name |-> "", tree |-> DisabledTree]
S(index, state) == [call |-> "set_pin", n |-> index, list |-> <<>>,
                    state |-> state, name |-> "", tree |-> DisabledTree]

RECURSIVE Build(_, _, _)
\* the board after the calls script[k..] made on board b
Build(b, script, k) ==
    IF k > Len(script) THEN [b EXCEPT !.notified = <<>>, !.hooks = <<>>]
    ELSE LET c == script[k]
             nb == CASE c.call = "add_component_threaded" ->
                          add_component_threaded(b, c.n, c.name, c.tree)
                      [] c.call = "add_component_clocked" ->
                          add_component_clocked(b, c.n, c.name, c.tree)
                      [] c.call = "add_wire" -> add_wire(b, c.list)
                      [] c.call = "set_pin" -> set_pin(b, c.n, c.state)
         IN Build(nb, script, k + 1)

\* the boards the simulation is run on
Scripts == {
    \* two threaded components on one wire, one of them driving it
    <<T(1), T(1), W(<<<<1, 1>>, <<2, 1>>>>), S(1, "High")>>,
    \* a threaded and a threadless component on one wire
    <<T(1), C(2), W(<<<<1, 1>>, <<2, 1>>>>)>>,
    \* a component with two pins on the wire it shares with another one
    <<C(2), C(1), W(<<<<1, 1>>, <<1, 2>>, <<2, 1>>>>)>>,
    \* the same with a threaded component holding the two pins
    <<T(2), C(1), W(<<<<1, 1>>, <<1, 2>>, <<2, 1>>>>)>> }

\* a board built by one of the scripts, simulate not yet called
InitSim == \E script \in Scripts : InitBoard(Build(new, script, 1))

\* the caller of the public API is between two calls, with calls left
Idle == pc = "idle" /\ remaining = 0 /\ ~panicked /\ dropping = 0

\* the caller may make one more call within the bound
CanCall == Idle /\ budget.calls < MaxCalls

\* the resolved state of the wire attached to pin index in board b, "none"
\* when the pin has no wire
WireStateOf(b, index) ==
    IF b.pins[index].wire = NoWire \/ b.pins[index].wire > Len(b.wires)
    THEN "none"
    ELSE WireRead(b.wires[b.pins[index].wire])

\* the <<ComponentId, PinId>> pairs a ComponentHandle can name
PinRefs ==
    {<<c, p>> \in (1..Len(common_component_data)) \X (1..MaxPinCount) :
         p <= Len(common_component_data[c].pins)}

PinLists == UNION {[1..n -> PinRefs] : n \in 1..MaxWirePins}

(***************************************************************************)
(* Public API called between simulate calls                                *)
(***************************************************************************)
AddComponentThreaded(pins_count) ==
    /\ Idle
    /\ budget.calls < MaxCalls
    /\ LET b == add_component_threaded(Board, pins_count, "free",
                                       ModuleTree(<<>>))
       IN /\ Commit(b)
          /\ lastOp' = [NoOp EXCEPT !.op = "add_component_threaded",
                                    !.notified = b.notified]
    /\ budget' = [budget EXCEPT !.calls = @ + 1]
    /\ led_state' = Append(led_state, "Z")
    /\ UNCHANGED <<output_ch, clock_pin, time_ns, remaining, pc, done_counter,
                   dropping, awaiting, ctr, ctr_read, vcd_module, fill_result>>

AddComponentClocked(pins_count) ==
    /\ Idle
    /\ budget.calls < MaxCalls
    /\ LET b == add_component_clocked(Board, pins_count, "free",
                                      ModuleTree(<<>>))
       IN /\ Commit(b)
          /\ lastOp' = [NoOp EXCEPT !.op = "add_component_clocked",
                                    !.notified = b.notified]
    /\ budget' = [budget EXCEPT !.calls = @ + 1]
    /\ UNCHANGED <<output_ch, clock_pin, time_ns, remaining, pc, done_counter,
                   dropping, awaiting, ctr, ctr_read, vcd_module, fill_result, led_state>>

AddWire(list) ==
    /\ Idle
    /\ budget.calls < MaxCalls
    /\ LET b == add_wire(Board, list)
       IN /\ Commit(b)
          /\ lastOp' = [NoOp EXCEPT !.op = "add_wire", !.list = list,
                                    !.notified = b.notified]
    /\ budget' = [budget EXCEPT !.calls = @ + 1]
    /\ UNCHANGED <<output_ch, clock_pin, time_ns, remaining, pc, done_counter,
                   dropping, awaiting, ctr, ctr_read, vcd_module, fill_result, led_state>>

SetPin(pin_index, state) ==
    /\ Idle
    /\ budget.calls < MaxCalls
    /\ LET b == set_pin(Board, pin_index, state)
       IN /\ Commit(b)
          /\ lastOp' = [NoOp EXCEPT !.op = "set_pin", !.pin = pin_index,
                                    !.state = state,
                                    !.old_state = pins[pin_index].out_state,
                                    !.old_out = WireStateOf(Board, pin_index),
                                    !.new_out = WireStateOf(b, pin_index),
                                    !.notified = b.notified]
    /\ budget' = [budget EXCEPT !.calls = @ + 1]
    /\ UNCHANGED <<output_ch, clock_pin, time_ns, remaining, pc, done_counter,
                   dropping, awaiting, ctr, ctr_read, vcd_module, fill_result, led_state>>

\* simulate looping `for i in 0..cycles`
Simulate_half(cycles) ==
    /\ Idle
    /\ budget.cycles + cycles <= MaxCycles
    /\ time_ns' = 0
    /\ vcd' = write_header(vcd)
    /\ panicked' = vcd'.panicked
    /\ remaining' = IF vcd'.panicked THEN 0 ELSE cycles
    /\ budget' = [budget EXCEPT !.cycles = @ + cycles]
    /\ lastOp' = [NoOp EXCEPT !.op = "simulate"]
    /\ UNCHANGED <<pins, wires, common_component_data, threaded_components,
                   threadless_components, threaded_components_changed,
                   input_ch, output_ch, events, clock_pin, pc, done_counter,
                   thread, dropping, awaiting, delivered, unstepped,
                   ctr, ctr_read, vcd_module, fill_result, led_state>>

\* Board::simulate up to its loop
Simulate(cycles) ==
    /\ Idle
    /\ budget.cycles + cycles <= MaxCycles
    /\ time_ns' = 0
    /\ vcd' = write_header(vcd)
    /\ panicked' = vcd'.panicked
    /\ remaining' = IF vcd'.panicked THEN 0 ELSE 2 * cycles
    /\ budget' = [budget EXCEPT !.cycles = @ + cycles]
    /\ lastOp' = [NoOp EXCEPT !.op = "simulate"]
    /\ UNCHANGED <<pins, wires, common_component_data, threaded_components,
                   threadless_components, threaded_components_changed,
                   input_ch, output_ch, events, clock_pin, pc, done_counter,
                   thread, dropping, awaiting, delivered, unstepped,
                   ctr, ctr_read, vcd_module, fill_result, led_state>>

(***************************************************************************)
(* The half-cycle of the board thread                                      *)
(***************************************************************************)
\* the number of hooks that return a nonempty list in outs
Changing(outs) ==
    Cardinality({c \in DOMAIN outs :
        /\ outs[c] # <<>>
        /\ vcd.forest[threadless_components[c].id].name = "free"})

\* the components the boards are built of, by the name they are added under:
\* "free" returns any output changes and has no signals, "probe" has no
\* outputs and reports any states for its signals, "toggler" drives its pin 1
\* High from clock_rising_edge and Low from clock_falling_edge, "idle" does
\* nothing, and "led" is components/led.rs
ComponentNames == {"free", "probe", "toggler", "idle", "led"}

\* the states a probe reports for a signal
FillStates == {"Low", "High"}

\* get_output_changes of a component after a hook; clock is the new clock_pin
HookOutputs(name, pin_count, clock) ==
    CASE name = "free" -> ChangeLists(pin_count)
      [] name = "toggler" -> {<<<<1, IF clock THEN "High" ELSE "Low">>>>}
      [] OTHER -> {<<>>}

\* what fill_module or get_signal_state of a component report for the signals
\* of its tree; held is Led.state
HookFills(name, tree, held) ==
    CASE name = "probe" -> [1..Len(tree.signals) -> FillStates]
      [] name = "led" -> {[k \in 1..Len(tree.signals) |-> held]}
      [] OTHER -> {[k \in 1..Len(tree.signals) |->
                      tree.signals[k].new_state[1]]}

\* the output_changes slices the threadless components' edge hooks may return
EdgeOutputs ==
    {outs \in [1..Len(threadless_components) -> ChangeLists(Len(pins))] :
        \A c \in 1..Len(threadless_components) :
            outs[c] \in HookOutputs(
                vcd.forest[threadless_components[c].id].name,
                Len(common_component_data[threadless_components[c].id].pins),
                ~clock_pin)}

\* the signal states the threadless components' hooks report
EdgeFills ==
    LET fills(c) == HookFills(vcd.forest[threadless_components[c].id].name,
                              vcd.forest[threadless_components[c].id].tree,
                              "Z")
    IN {f \in [1..Len(threadless_components) ->
                  UNION {fills(c) : c \in 1..Len(threadless_components)}] :
           \A c \in 1..Len(threadless_components) : f[c] \in fills(c)}

\* the threadless components whose hook returned changed = true
FilledChanged(fills) ==
    {threadless_components[c].id : c \in
        {k \in 1..Len(threadless_components) :
            fill_everything(vcd.forest[threadless_components[k].id].tree,
                            fills[k]).changed}}

RECURSIVE FillThreadless(_, _, _)
\* the loop over threadless_components in toggle_clock, for the writer: each
\* hook fills the component's tree, and the board calls set_change when the
\* result says the tree changed
FillThreadless(w, fills, c) ==
    IF c > Len(threadless_components) THEN w
    ELSE LET id == threadless_components[c].id
             r == fill_everything(w.forest[id].tree, fills[c])
             w1 == [w EXCEPT !.forest[id].tree = r.tree]
         IN FillThreadless(IF r.changed THEN set_change(w1, id) ELSE w1,
                           fills, c + 1)

\* one iteration of simulate's loop: toggle_clock, then, when no Step was
\* sent, handle_messages returns at once and the iteration ends
ToggleClock ==
    /\ pc = "idle" /\ remaining > 0 /\ ~panicked
    /\ \E outs \in EdgeOutputs, fills \in EdgeFills :
       /\ budget.outputs + Changing(outs) <= MaxOutputs
       /\ budget' = [budget EXCEPT !.outputs = @ + Changing(outs)]
       /\ \E r \in {toggle_clock(Board, clock_pin, outs, time_ns)} :
            /\ \E w \in {FillThreadless(vcd, fills, 1)} :
                  Commit([r.b EXCEPT !.vcd = IF r.done_counter = 0
                                            THEN write_step(w) ELSE w])
            /\ clock_pin' = r.clock_pin
            /\ done_counter' = r.done_counter
            /\ awaiting' = awaiting \cup Range(r.stepped)
            /\ lastOp' = [NoOp EXCEPT !.op = "toggle_clock",
                                      !.stepped = r.stepped,
                                      !.unstepped = unstepped,
                                      !.now = time_ns,
                                      !.peeks = r.peeks,
                                      !.before = events,
                                      !.notified = r.b.notified,
                                      !.hooks = r.b.hooks,
                                      !.flagged = FilledChanged(fills)]
            /\ IF r.done_counter = 0
               THEN /\ pc' = "idle"
                    /\ time_ns' = time_ns + clock_period
                    /\ remaining' = remaining - 1
               ELSE /\ pc' = "collect"
                    /\ UNCHANGED <<time_ns, remaining>>
    /\ UNCHANGED <<output_ch, dropping, ctr, ctr_read, vcd_module, fill_result, led_state>>

\* one iteration of the receive loop of Board::handle_messages
HandleMessage ==
    /\ pc = "collect" /\ ~panicked
    /\ output_ch # <<>>
    /\ LET m == Head(output_ch)
           index == IF m.type = "PinChange"
                    THEN common_component_data[m.id].pins[m.pin] ELSE 0
       IN \E b \in {CASE m.type = "PinChange" -> set_pin(Board, index, m.state)
                      [] m.type = "PingMeAt" ->
                           [Board EXCEPT !.events =
                                   @ (+) SetToBag({PingEvent(m.id, m.time)})]
                      [] m.type = "Done" ->
                           LET w == IF m.changed THEN set_change(vcd, m.id)
                                    ELSE vcd
                           IN [Board EXCEPT !.vcd = IF done_counter - 1 = 0
                                                    THEN write_step(w) ELSE w]
                      [] OTHER -> [Board EXCEPT !.panicked = TRUE]} :
          /\ Commit(b)
          /\ output_ch' = Tail(output_ch)
          /\ lastOp' = IF m.type = "PinChange"
                       THEN [NoOp EXCEPT !.op = "set_pin", !.pin = index,
                                         !.state = m.state,
                                         !.old_state = pins[index].out_state,
                                         !.old_out = WireStateOf(Board, index),
                                         !.new_out = WireStateOf(b, index),
                                         !.notified = b.notified,
                                         !.flagged = lastOp.flagged]
                       ELSE [NoOp EXCEPT !.op = "handle_messages",
                                         !.flagged = lastOp.flagged \cup
                                             (IF m.type = "Done" /\ m.changed
                                              THEN {m.id} ELSE {})]
          /\ IF m.type = "Done"
             THEN /\ done_counter' = done_counter - 1
                  /\ IF done_counter - 1 = 0
                     THEN /\ pc' = "idle"
                          /\ time_ns' = time_ns + clock_period
                          /\ remaining' = remaining - 1
                     ELSE UNCHANGED <<pc, time_ns, remaining>>
             ELSE UNCHANGED <<done_counter, pc, time_ns, remaining>>
          /\ awaiting' = IF m.type = "Done"
                         THEN awaiting \ {common_component_data[m.id].index}
                         ELSE awaiting
    /\ UNCHANGED <<clock_pin, dropping, budget, ctr, ctr_read, vcd_module, fill_result, led_state>>

(***************************************************************************)
(* Worker threads: Component::execute_loop                                 *)
(***************************************************************************)
StepKinds == {"Step", "ClockRising", "ClockFalling"}

\* a worker that sends no Done when its hook reports no output change
Replies_no_done(id, m, out, ping) ==
    IF m.type \in StepKinds
    THEN [i \in 1..Len(out) |-> PinChange(id, out[i][1], out[i][2])]
         \o (IF m.type = "Step" /\ ping >= 0 THEN <<PingMeAt(id, ping)>>
              ELSE <<>>)
         \o (IF out = <<>> THEN <<>> ELSE <<Done(id)>>)
    ELSE <<>>

\* a worker that sends its Done first and its output changes after it
Replies_done_first(id, m, out, ping) ==
    IF m.type \in StepKinds
    THEN <<Done(id)>>
         \o [i \in 1..Len(out) |-> PinChange(id, out[i][1], out[i][2])]
         \o (IF m.type = "Step" /\ ping >= 0 THEN <<PingMeAt(id, ping)>>
              ELSE <<>>)
    ELSE <<>>

\* a worker that sends the message it handled back before its answer
Replies_echo(id, m, out, ping) ==
    IF m.type \in StepKinds
    THEN <<m>>
         \o [i \in 1..Len(out) |-> PinChange(id, out[i][1], out[i][2])]
         \o (IF m.type = "Step" /\ ping >= 0 THEN <<PingMeAt(id, ping)>>
              ELSE <<>>)
         \o <<Done(id)>>
    ELSE <<>>

\* a worker that acknowledges every message it takes off its inbox
Replies_ack_all(id, m, out, ping) ==
    IF m.type \in StepKinds
    THEN [i \in 1..Len(out) |-> PinChange(id, out[i][1], out[i][2])]
         \o (IF m.type = "Step" /\ ping >= 0 THEN <<PingMeAt(id, ping)>>
              ELSE <<>>)
         \o <<Done(id)>>
    ELSE <<Done(id)>>

\* what the worker of component id sends on output_tx while it handles
\* message m: nothing unless m is Step, ClockRising or ClockFalling; then a
\* PinChange for every entry of the output changes out, a PingMeAt when m is
\* a Step and advance returned Some(ping) (ping < 0 stands for None), and
\* last a Done
Replies(id, m, out, ping) ==
    IF m.type \in StepKinds
    THEN [i \in 1..Len(out) |-> PinChange(id, out[i][1], out[i][2])]
         \o (IF m.type = "Step" /\ ping >= 0 THEN <<PingMeAt(id, ping)>>
              ELSE <<>>)
         \o <<Done(id)>>
    ELSE <<>>

\* a worker whose loop goes on after Die
ThreadAfter_ignore_die(m) == "running"

\* the replies with fill_everything_threaded's result in the Done
WithChanged(replies, changed) ==
    [i \in 1..Len(replies) |->
        IF replies[i].type = "Done"
        THEN [replies[i] EXCEPT !.changed = changed] ELSE replies[i]]

\* the worker thread after it has handled m: `Message::Die => break` ends the
\* loop, execute_loop returns and the thread with it
ThreadAfter(m) == IF m.type = "Die" THEN "exited" ELSE "running"

\* one iteration of the worker's loop `for m in input_rx`: Die ends the loop
\* and the thread, PinChange goes to the component's set_pin, Done and
\* PingMeAt are ignored, and Step, ClockRising and ClockFalling run the hook
\* and send the replies
execute_loop(t) ==
    /\ t \in 1..Len(threaded_components)
    /\ thread[t] = "running"
    /\ input_ch[t] # <<>>
    /\ LET m == Head(input_ch[t])
           id == threaded_components[t].id
       IN /\ input_ch' = [input_ch EXCEPT ![t] = Tail(@)]
          /\ thread' = [thread EXCEPT ![t] = ThreadAfter(m)]
          /\ led_state' = IF m.type = "PinChange"
                              /\ vcd.forest[id].name = "led"
                           THEN [led_state EXCEPT ![t] = m.state]
                           ELSE led_state
          /\ IF m.type \in StepKinds
             THEN \E out \in HookOutputs(vcd.forest[id].name,
                                Len(common_component_data[id].pins), FALSE),
                     ping \in IF vcd.forest[id].name = "free"
                              THEN {-1} \cup PingTimes ELSE {-1},
                     vals \in HookFills(vcd.forest[id].name,
                                        vcd.forest[id].tree, led_state[t]) :
                      /\ out # <<>> => budget.outputs < MaxOutputs
                      /\ ping >= 0 => budget.pings < MaxPings
                      /\ \E r \in {fill_everything(vcd.forest[id].tree,
                                                   vals)} :
                            /\ vcd' = [vcd EXCEPT !.forest[id].tree = r.tree]
                            /\ output_ch' = output_ch \o
                                   WithChanged(Replies(id, m, out, ping),
                                               r.changed)
                      /\ budget' = [budget EXCEPT
                            !.outputs = @ + (IF out # <<>> THEN 1 ELSE 0),
                            !.pings = @ + (IF ping >= 0 THEN 1 ELSE 0)]
             ELSE /\ output_ch' = output_ch \o Replies(id, m, <<>>, -1)
                  /\ UNCHANGED <<budget, vcd>>
    /\ UNCHANGED <<pins, wires, common_component_data, threaded_components,
                   threadless_components, threaded_components_changed,
                   events, clock_pin, time_ns, remaining, pc,
                   done_counter, panicked, dropping, awaiting, delivered,
                   unstepped, lastOp, ctr, ctr_read, vcd_module, fill_result>>

(***************************************************************************)
(* Worker faults                                                           *)
(***************************************************************************)
\* the component's set_pin or its hook panics while the worker handles the
\* message at the head of its inbox: the message is gone, nothing is sent and
\* the thread ends, its input_rx dropped with it
WorkerPanic(t) ==
    /\ t \in 1..Len(threaded_components)
    /\ thread[t] = "running"
    /\ input_ch[t] # <<>>
    /\ Head(input_ch[t]).type \in StepKinds \cup {"PinChange"}
    /\ budget.faults < MaxFaults
    /\ input_ch' = [input_ch EXCEPT ![t] = Tail(@)]
    /\ thread' = [thread EXCEPT ![t] = "panicked"]
    /\ budget' = [budget EXCEPT !.faults = @ + 1]
    /\ UNCHANGED <<pins, wires, common_component_data, threaded_components,
                   threadless_components, threaded_components_changed,
                   output_ch, events, clock_pin, time_ns, remaining, pc,
                   done_counter, panicked, dropping, awaiting, delivered,
                   unstepped, lastOp, ctr, ctr_read, vcd_module, fill_result, vcd, led_state>>

\* a component that overrides the provided execute_loop and sends a Done on
\* its clone of output_tx without having taken a Step
RogueDone(t) ==
    /\ t \in 1..Len(threaded_components)
    /\ thread[t] = "running"
    /\ budget.faults < MaxFaults
    /\ output_ch' = Append(output_ch, Done(threaded_components[t].id))
    /\ budget' = [budget EXCEPT !.faults = @ + 1]
    /\ UNCHANGED <<pins, wires, common_component_data, threaded_components,
                   threadless_components, threaded_components_changed,
                   input_ch, events, clock_pin, time_ns, remaining, pc,
                   done_counter, panicked, thread, dropping, awaiting,
                   delivered, unstepped, lastOp, ctr, ctr_read, vcd_module,
                   fill_result, vcd, led_state>>

(***************************************************************************)
(* Dropping the board: impl Drop for ThreadedComponentData                 *)
(***************************************************************************)
\* the first half of drop() for threaded_components[k]: input_tx.send(Die)
\* with its expect; the board thread then blocks in join()
SendDie(k) ==
    IF thread[k] # "running"
    THEN /\ panicked' = TRUE
         /\ UNCHANGED <<input_ch, dropping, pc>>
    ELSE /\ input_ch' = [input_ch EXCEPT ![k] = Append(@, Die)]
         /\ dropping' = k
         /\ pc' = "join"
         /\ UNCHANGED panicked

\* the board goes out of scope between two calls: its fields are dropped in
\* declaration order, threaded_components first, element by element
DropBoard ==
    /\ Idle
    /\ IF threaded_components = <<>>
       THEN /\ pc' = "dropped"
            /\ UNCHANGED <<input_ch, dropping, panicked>>
       ELSE SendDie(1)
    /\ lastOp' = [NoOp EXCEPT !.op = "drop"]
    /\ UNCHANGED <<pins, wires, common_component_data, threaded_components,
                   threadless_components, threaded_components_changed,
                   output_ch, events, clock_pin, time_ns, remaining,
                   done_counter, thread, awaiting, delivered, unstepped,
                   budget, ctr, ctr_read, vcd_module, fill_result, vcd, led_state>>

\* thread.take().unwrap().join().unwrap() returns once the worker thread has
\* ended, and panics when that thread had panicked; the drop of the next
\* element follows
JoinThread ==
    /\ pc = "join" /\ ~panicked
    /\ thread[dropping] # "running"
    /\ IF thread[dropping] = "panicked"
       THEN /\ panicked' = TRUE
            /\ UNCHANGED <<input_ch, dropping, pc>>
       ELSE IF dropping = Len(threaded_components)
       THEN /\ pc' = "dropped"
            /\ UNCHANGED <<input_ch, dropping, panicked>>
       ELSE SendDie(dropping + 1)
    /\ UNCHANGED <<pins, wires, common_component_data, threaded_components,
                   threadless_components, threaded_components_changed,
                   output_ch, events, clock_pin, time_ns, remaining,
                   done_counter, thread, awaiting, delivered, unstepped,
                   budget, lastOp, ctr, ctr_read, vcd_module, fill_result, vcd, led_state>>

(***************************************************************************)
(* WireStateCounter on its own                                             *)
(***************************************************************************)
boardVars == <<pins, wires, common_component_data, threaded_components,
               threadless_components, threaded_components_changed, input_ch,
               output_ch, events, clock_pin, time_ns, remaining, pc,
               done_counter, panicked, thread, dropping, awaiting, delivered,
               unstepped, budget, lastOp, vcd, led_state>>

CounterRead ==
    /\ ctr_read' = read(ctr)
    /\ UNCHANGED <<ctr, vcd_module, fill_result, boardVars>>

CounterAdd(state) ==
    /\ \A f \in DOMAIN ctr : ctr[f] < MaxCount
    /\ ctr' = add(ctr, state)
    /\ ctr_read' = "none"
    /\ UNCHANGED <<vcd_module, fill_result, boardVars>>

\* remove is only ever called for a state that was added before
CounterRemove(state) ==
    /\ \E c \in [DOMAIN ctr -> 0..MaxCount] : add(c, state) = ctr
    /\ ctr' = remove(ctr, state)
    /\ ctr_read' = "none"
    /\ UNCHANGED <<vcd_module, fill_result, boardVars>>

InitCounter ==
    /\ InitBoard(new)
    /\ ctr = ZeroCounter
    /\ ctr_read = "none"

NextCounter ==
    \/ CounterRead
    \/ \E s \in PinState : CounterAdd(s)
    \/ \E s \in PinState : CounterRemove(s)

SpecCounter == InitCounter /\ [][NextCounter]_vars

(***************************************************************************)
(* Specifications                                                          *)
(***************************************************************************)
\* building a board: every sequence of at most MaxCalls calls on a new board.
\* The workers' steps are left to SpecSim: before the first Step a worker only
\* takes PinChange messages off its own inbox.
Next ==
    \/ \E n \in 1..MaxPinCount : AddComponentThreaded(n)
    \/ \E n \in 1..MaxPinCount : AddComponentClocked(n)
    \/ CanCall /\ \E list \in PinLists : AddWire(list)
    \/ \E i \in 1..Len(pins), s \in PinState : SetPin(i, s)

Spec == Init /\ [][Next]_vars

\* the wire engine on a built board: set_pin and further add_wire calls
NextWire ==
    \/ \E i \in 1..Len(pins), s \in PinState : SetPin(i, s)
    \/ CanCall /\ \E list \in PinLists : AddWire(list)

SpecWire == InitSim /\ [][NextWire]_vars

\* execute_loop on its own: one worker and every inbox of at most MaxInbox
\* messages of the Message enum
InboxMessages ==
    {PinChange(1, 1, st) : st \in {"Z", "High"}}
        \cup {Step(0), ClockRising, ClockFalling, PingMeAt(1, 0), Done(1), Die}

Inboxes == UNION {[1..n -> InboxMessages] : n \in 0..MaxInbox}

InitWorker ==
    \E inbox \in Inboxes :
        InitBoard([add_component_threaded(new, 1, "free", ModuleTree(<<>>))
                       EXCEPT !.input_ch[1] = inbox])

NextWorker == \E t \in 1..Len(threaded_components) : execute_loop(t)

SpecWorker == InitWorker /\ [][NextWorker]_vars

\* the indices a threaded component can have
WorkerIds == 1..MaxCalls

\* the board thread's blocking receive in handle_messages returns the
\* message at the head of its inbox: the step HandleMessage takes, seen on
\* the channel alone
BoardRecv ==
    /\ pc = "collect" /\ ~panicked
    /\ output_ch # <<>>
    /\ output_ch' = Tail(output_ch)

\* the board thread goes on with the loop of simulate: the step ToggleClock
\* takes, seen on the clock alone
BoardLoop ==
    /\ pc = "idle" /\ remaining > 0 /\ ~panicked
    /\ clock_pin' = ~clock_pin

\* worker t takes the message at the head of its inbox: the step
\* execute_loop(t) takes, seen on the channel alone
WorkerRecv(t) ==
    /\ t \in 1..Len(threaded_components)
    /\ thread[t] = "running"
    /\ input_ch[t] # <<>>
    /\ input_ch' = [input_ch EXCEPT ![t] = Tail(@)]

\* dropping a built board while its workers run: set_pin calls, then the drop
NextDrop ==
    \/ \E i \in 1..Len(pins), s \in OutStates : SetPin(i, s)
    \/ \E t \in 1..Len(threaded_components) : execute_loop(t)
    \/ DropBoard
    \/ JoinThread

SpecDrop == InitSim /\ [][NextDrop]_vars

\* the worker threads are scheduled again and again, and join returns once
\* the joined thread has ended
SpecDropFair ==
    /\ SpecDrop
    /\ WF_vars(JoinThread)
    /\ \A t \in WorkerIds : WF_input_ch(WorkerRecv(t))

\* running simulate on a built board
NextSim ==
    \/ \E n \in 1..MaxCycles : Simulate(n)
    \/ ToggleClock
    \/ HandleMessage
    \/ \E t \in 1..Len(threaded_components) : execute_loop(t)

SpecSim == InitSim /\ [][NextSim]_vars

\* simulate with every thread scheduled again and again: the board thread
\* goes on with its loop, its receive returns when a message is there, and
\* each worker takes the next message of its inbox when there is one
SpecSimFair ==
    /\ SpecSim
    /\ WF_clock_pin(BoardLoop)
    /\ WF_output_ch(BoardRecv)
    /\ \A t \in WorkerIds : WF_input_ch(WorkerRecv(t))

\* simulate with at most MaxFaults faulty worker steps
NextFault ==
    \/ NextSim
    \/ \E t \in 1..Len(threaded_components) : WorkerPanic(t)
    \/ \E t \in 1..Len(threaded_components) : RogueDone(t)

SpecFault == InitSim /\ [][NextFault]_vars

\* the same with every thread that is alive scheduled again and again
SpecFaultFair ==
    /\ SpecFault
    /\ WF_clock_pin(BoardLoop)
    /\ WF_output_ch(BoardRecv)
    /\ \A t \in WorkerIds : WF_input_ch(WorkerRecv(t))

(***************************************************************************)
(* Properties                                                              *)
(***************************************************************************)
Sum(c) == c.low + c.high + c.weak_low + c.weak_high

\* the pins of wire w, as positions in its member list
Members(w) == 1..Len(wires[w].pins)

\* the driven state of the k-th member of wire w
Driven(w, k) == pins[wires[w].pins[k]].out_state

\* a wire with one member driving High and another driving Low
Contention(w) ==
    \E i, j \in Members(w) : Driven(w, i) = "High" /\ Driven(w, j) = "Low"

\* C1: read returns Z when all four counts are zero; WeakLow or WeakHigh
\* when low = high = 0 and exactly that weak count is nonzero; Error when
\* low = high = 0 and both weak counts are nonzero; High when low = 0 and
\* high > 0; Low when low > 0 and high = 0; Error when both are nonzero.
C1_ReadRule ==
    ctr_read # "none" =>
        /\ (ctr.low = 0 /\ ctr.high = 0 /\ ctr.weak_low = 0 /\ ctr.weak_high = 0)
              => ctr_read = "Z"
        /\ (ctr.low = 0 /\ ctr.high = 0 /\ ctr.weak_low > 0 /\ ctr.weak_high = 0)
              => ctr_read = "WeakLow"
        /\ (ctr.low = 0 /\ ctr.high = 0 /\ ctr.weak_low = 0 /\ ctr.weak_high > 0)
              => ctr_read = "WeakHigh"
        /\ (ctr.low = 0 /\ ctr.high = 0 /\ ctr.weak_low > 0 /\ ctr.weak_high > 0)
              => ctr_read = "Error"
        /\ (ctr.low = 0 /\ ctr.high > 0) => ctr_read = "High"
        /\ (ctr.low > 0 /\ ctr.high = 0) => ctr_read = "Low"
        /\ (ctr.low > 0 /\ ctr.high > 0) => ctr_read = "Error"

\* a weak high and a strong low together have been read as Low
C1_Witness ==
    ctr_read = "Low" /\ ctr.weak_high > 0 /\ ctr.low > 0 /\ ctr.high = 0

Ticks(s) == IF s = "Z" THEN 0 ELSE IF s = "Error" THEN 2 ELSE 1

RECURSIVE TicksOf(_, _)
TicksOf(w, k) == IF k = 0 THEN 0 ELSE Ticks(Driven(w, k)) + TicksOf(w, k - 1)

Recount(w) ==
    [low |-> Cardinality({k \in Members(w) : Driven(w, k) \in {"Low", "Error"}}),
     high |-> Cardinality({k \in Members(w) : Driven(w, k) \in {"High", "Error"}}),
     weak_low |-> Cardinality({k \in Members(w) : Driven(w, k) = "WeakLow"}),
     weak_high |-> Cardinality({k \in Members(w) : Driven(w, k) = "WeakHigh"})]

\* C3: after add_wire and any sequence of set_pin calls every wire's counter
\* is the one obtained from zero by adding the driven state of each member,
\* and Wire.read() returns the resolution of that recomputed counter.
C3_Recompute ==
    \A w \in 1..Len(wires) :
        /\ wires[w].counter = Recount(w)
        /\ WireRead(wires[w]) = read(Recount(w))

\* a set_pin has replaced one driven state of a wired pin by another
C3_Witness ==
    /\ lastOp.op = "set_pin"
    /\ pins[lastOp.pin].wire # NoWire
    /\ lastOp.old_state \notin {"Z", lastOp.state}
    /\ lastOp.state # "Z"
    /\ lastOp.old_out # lastOp.new_out

\* the board-global index of the pin a <<ComponentId, PinId>> pair names
IndexOf(ref) == common_component_data[ref[1]].pins[ref[2]]

\* a pin list naming a pin that already has a wire, or naming a pin twice
Rejected(list) ==
    \/ \E k \in 1..Len(list) : pins[IndexOf(list[k])].wire # NoWire
    \/ \E i, j \in 1..Len(list) : i # j /\ list[i] = list[j]

C4_OneWirePerPin ==
    \A w1, w2 \in 1..Len(wires) :
        \A i \in Members(w1), j \in Members(w2) :
            wires[w1].pins[i] = wires[w2].pins[j] => (w1 = w2 /\ i = j)

\* C4: add_wire panics when a listed pin is already attached to a wire or
\* is listed twice, and no pin is ever a member of two wires or twice a
\* member of one.
C4_W3 ==
    /\ [][(lastOp'.op = "add_wire" /\ budget'.calls = budget.calls + 1
           /\ Rejected(lastOp'.list)) => panicked']_vars
    /\ []C4_OneWirePerPin

\* add_wire has panicked on a list naming the same pin twice
C4_Witness ==
    /\ panicked
    /\ lastOp.op = "add_wire"
    /\ \E i, j \in 1..Len(lastOp.list) : i # j /\ lastOp.list[i] = lastOp.list[j]
    /\ \A k \in 1..Len(lastOp.list) : pins[IndexOf(lastOp.list[k])].wire > Len(wires)

C6_Contention ==
    \A w \in 1..Len(wires) :
        Contention(w) =>
            /\ WireRead(wires[w]) = "Error"
            /\ \A k \in Members(w) : delivered[wires[w].pins[k]] = "Error"
            /\ ~panicked

\* a set_pin has just put a wire into contention
C6_Witness ==
    /\ lastOp.op = "set_pin"
    /\ lastOp.old_out \in {"High", "Low"}
    /\ lastOp.new_out = "Error"
    /\ pins[lastOp.pin].wire # NoWire
    /\ Contention(pins[lastOp.pin].wire)
    /\ Len(wires[pins[lastOp.pin].wire].pins) >= 2

\* the last operation was a set_pin that changed its wire's resolved value
SetPinChangedWire ==
    /\ lastOp.op = "set_pin"
    /\ ~panicked
    /\ pins[lastOp.pin].wire # NoWire
    /\ lastOp.old_out # lastOp.new_out

\* the notifications the last operation sent to component c
NotifiedTo(c) == {k \in 1..Len(lastOp.notified) : lastOp.notified[k].component = c}

\* C7 as stated: every other component attached to the wire gets exactly one
\* notification, with the new resolved value, and the owner of the pin gets
\* none.
C7_Original ==
    SetPinChangedWire =>
        LET w == pins[lastOp.pin].wire
            owner == pins[lastOp.pin].component
        IN /\ \A k \in Members(w) :
                 LET c == pins[wires[w].pins[k]].component
                 IN c # owner =>
                       /\ Cardinality(NotifiedTo(c)) = 1
                       /\ \A n \in NotifiedTo(c) :
                             lastOp.notified[n].state = lastOp.new_out
           /\ NotifiedTo(owner) = {}

\* C7 amended: one notification with the new resolved value is dispatched
\* for every pin attached to the wire, the pin being set included, so the
\* owner of that pin is notified too and a component gets one notification
\* for each pin it has on the wire.
C7_Amended ==
    SetPinChangedWire =>
        LET w == pins[lastOp.pin].wire
        IN /\ Len(lastOp.notified) = Len(wires[w].pins)
           /\ \A k \in Members(w) :
                 Cardinality({n \in 1..Len(lastOp.notified) :
                     lastOp.notified[n] =
                         [component |-> pins[wires[w].pins[k]].component,
                          pin |-> pins[wires[w].pins[k]].id,
                          state |-> lastOp.new_out]}) = 1

\* a set_pin has changed a wire joining pins of two components
C7_Witness ==
    /\ SetPinChangedWire
    /\ \E k \in Members(pins[lastOp.pin].wire) :
          pins[wires[pins[lastOp.pin].wire].pins[k]].component
              # pins[lastOp.pin].component
    /\ NotifiedTo(pins[lastOp.pin].component) # {}

\* C8: every threaded component that was sent a PinChange since its last
\* Step is sent a Step in the next half-cycle.
C8_Original ==
    lastOp.op = "toggle_clock" => lastOp.unstepped \subseteq Range(lastOp.stepped)

\* C9: the event the board's peek examines is always one with the smallest
\* time among those pending.
C9_Original ==
    lastOp.op = "toggle_clock" =>
        \A k \in 1..Len(lastOp.peeks) : lastOp.peeks[k].at = lastOp.peeks[k].min

\* C10: after the flush at the start of a half-cycle no event with
\* at <= now remains in the queue and no event with at > now was removed.
C10_Original ==
    lastOp.op = "toggle_clock" =>
        /\ \A e \in BagToSet(events) : e.at > lastOp.now
        /\ \A e \in BagToSet(lastOp.before) :
              e.at > lastOp.now => CopiesIn(e, events) = CopiesIn(e, lastOp.before)

\* the events the flush of the last toggle_clock took off the queue
Popped == {e \in BagToSet(lastOp.before) :
              CopiesIn(e, events) < CopiesIn(e, lastOp.before)}

\* C11: when the flush at the start of a half-cycle takes a due ping of a
\* threaded component off the queue, that component is sent a Step (its
\* advance is invoked) in that half-cycle, whether or not an input changed.
C11_Original ==
    (lastOp.op = "toggle_clock" /\ ~panicked) =>
        \A e \in Popped :
            (e.at <= lastOp.now /\ common_component_data[e.id].is_threaded) =>
                common_component_data[e.id].index \in Range(lastOp.stepped)

\* the messages a step has appended to the board's inbox
Sent == SubSeq(output_ch', Len(output_ch) + 1, Len(output_ch'))

\* worker t takes a message off its inbox in this step
Takes(t) == input_ch[t] # <<>> /\ input_ch'[t] = Tail(input_ch[t])

DoneCount(q) == Cardinality({i \in 1..Len(q) : q[i].type = "Done"})

\* C12 (T1): a worker that takes a Step, ClockRising or ClockFalling off its
\* inbox sends exactly one Done, carrying its own id; a worker that takes a
\* PinChange, Done, PingMeAt or Die sends nothing at all.
C12_T1 ==
    [][\A t \in 1..Len(threaded_components) :
          Takes(t) =>
              /\ SubSeq(output_ch', 1, Len(output_ch)) = output_ch
              /\ IF Head(input_ch[t]).type \in StepKinds
                 THEN /\ DoneCount(Sent) = 1
                      /\ \A i \in 1..Len(Sent) :
                            Sent[i].id = threaded_components[t].id
                 ELSE Sent = <<>>]_vars

\* a worker has handled a whole inbox of one step message and a Die and has
\* sent one Done
C12_Witness ==
    /\ Len(threaded_components) = 1
    /\ thread[1] = "exited"
    /\ input_ch[1] = <<>>
    /\ DoneCount(output_ch) = 1

StepCount(q) == Cardinality({i \in 1..Len(q) : q[i].type = "Step"})

\* the Steps sent to threaded component t that the board has no Done for:
\* those still in the worker's inbox and those whose Done is in the board's
DoneInFlight(t) ==
    Cardinality({i \in 1..Len(output_ch) :
                    /\ output_ch[i].type = "Done"
                    /\ output_ch[i].id = threaded_components[t].id})

Unacknowledged(t) == StepCount(input_ch[t]) + DoneInFlight(t)

\* C13 (T3): the board sends a worker a Step only when it has received the
\* Done of every Step it sent that worker before, and only one at a time; at
\* any time at most one Step per worker is unacknowledged.
C13_T3 ==
    /\ [][\A t \in 1..Len(threaded_components) :
             StepCount(input_ch'[t]) > StepCount(input_ch[t]) =>
                 /\ t \notin awaiting
                 /\ Unacknowledged(t) = 0
                 /\ StepCount(input_ch'[t]) = 1]_vars
    /\ [](\A t \in 1..Len(threaded_components) : Unacknowledged(t) <= 1)

\* in the second half-cycle both workers of a board have been sent a Step
\* again, after each acknowledged the Step of the first half-cycle
C13_Witness ==
    /\ pc = "collect"
    /\ time_ns = clock_period
    /\ Len(threaded_components) = 2
    /\ awaiting = {1, 2}
    /\ \A t \in {1, 2} : Unacknowledged(t) = 1

\* C14: every simulate call returns: once its loop has iterations left, the
\* board thread reaches the end of the loop, with no fatal error.
C14_Terminates ==
    (remaining > 0) ~> (remaining = 0 /\ pc = "idle" /\ ~panicked)

\* the board is blocked in the collect phase with nothing in its inbox while
\* two workers still have their Step to handle
C14_Witness ==
    /\ pc = "collect"
    /\ output_ch = <<>>
    /\ done_counter = 2
    /\ \A t \in {1, 2} : StepCount(input_ch[t]) = 1

\* the position of the first Die in inbox q, 0 when there is none
FirstDie(q) ==
    IF \E i \in 1..Len(q) : q[i].type = "Die"
    THEN CHOOSE i \in 1..Len(q) :
             q[i].type = "Die" /\ \A j \in 1..(i - 1) : q[j].type # "Die"
    ELSE 0

\* once the board is being dropped every join returns and the drop comes to
\* its end
C15_JoinsReturn == (pc = "join") ~> (pc = "dropped")

\* C15: Die is sent to the workers in the order of threaded_components, each
\* after the join of the one before; nothing is ever put into an inbox
\* behind a Die; a worker ends only by taking Die, so with everything queued
\* ahead of it handled; when the drop is over every worker thread has ended
\* and the board has not panicked; and every join returns.
C15_Shutdown ==
    /\ [][\A t \in 1..Len(threaded_components) :
             /\ (t <= dropping) => Len(input_ch'[t]) <= Len(input_ch[t])
             /\ (thread[t] = "running" /\ thread'[t] # "running") =>
                    /\ Head(input_ch[t]).type = "Die"
                    /\ t = dropping
             /\ (dropping' = t /\ dropping # t) =>
                    /\ t = dropping + 1
                    /\ \A u \in 1..(t - 1) : thread[u] = "exited"]_vars
    /\ [](\A t \in 1..Len(threaded_components) :
             /\ FirstDie(input_ch[t]) \in {0, Len(input_ch[t])}
             /\ (thread[t] = "running" /\ t <= dropping) =>
                    FirstDie(input_ch[t]) # 0)
    /\ [](pc = "dropped" =>
             /\ ~panicked
             /\ \A t \in 1..Len(threaded_components) :
                   thread[t] = "exited" /\ input_ch[t] = <<>>)
    /\ C15_JoinsReturn

\* the drop of a board with two workers is over
C15_Witness ==
    /\ pc = "dropped"
    /\ Len(threaded_components) = 2
    /\ \A t \in {1, 2} : thread[t] = "exited"

\* C16, as claimed: when the worker the board is waiting for in the collect
\* phase has panicked and no Done of it is under way, the board thread
\* panics in the end.
C16_Original ==
    \A t \in WorkerIds :
        (/\ t <= Len(threaded_components)
         /\ pc = "collect"
         /\ t \in awaiting
         /\ thread[t] = "panicked"
         /\ DoneInFlight(t) = 0) ~> panicked

\* C17, as claimed: when handle_messages takes a Done of a component that no
\* Step is unacknowledged for, the board thread panics and the Done count is
\* left as it was.
C17_Original ==
    [][(/\ pc = "collect" /\ ~panicked
        /\ output_ch # <<>>
        /\ output_ch' = Tail(output_ch)
        /\ Head(output_ch).type = "Done"
        /\ common_component_data[Head(output_ch).id].index \notin awaiting)
       => (panicked' /\ done_counter' = done_counter)]_vars

\* C18: in a half-cycle every edge hook of a threadless component runs with
\* the pin states the components held before the half-cycle began, and the
\* board makes no pin notification between the first hook and the last; the
\* set_pin calls that replay the staged output changes all come after the
\* last hook; and when the half-cycle is over every pin of a wire whose
\* resolved state it changed has been handed the new state, which is what
\* its component holds at its next hook.
C18_Snapshot ==
    [][clock_pin' # clock_pin =>
         LET hooks == lastOp'.hooks
             notified == lastOp'.notified
         IN /\ Len(hooks) = Len(threadless_components)
            /\ \A i \in DOMAIN hooks :
                  /\ hooks[i].seen = delivered
                  /\ hooks[i].at = hooks[1].at
                  /\ \A k \in DOMAIN notified :
                        ~common_component_data[notified[k].component].is_threaded
                            => k > hooks[i].at
            /\ \A w \in 1..Len(wires) :
                  WireRead(wires'[w]) # WireRead(wires[w]) =>
                      \A k \in Members(w) :
                          delivered'[wires[w].pins[k]] = WireRead(wires'[w])]_vars

\* a rising edge on a board of two threadless components has ended: the
\* first one's hook changed its output, the second one's hook ran with the
\* old state of its pin, and set_pin has handed it the new one since
C18_Witness ==
    /\ lastOp.op = "toggle_clock"
    /\ clock_pin
    /\ Len(lastOp.hooks) = 2
    /\ \E k \in DOMAIN lastOp.notified :
          LET n == lastOp.notified[k]
              index == common_component_data[n.component].pins[n.pin]
          IN /\ n.component = lastOp.hooks[2].component
             /\ k > lastOp.hooks[2].at
             /\ lastOp.hooks[2].seen[index] # n.state
             /\ delivered[index] = n.state
             /\ pins[common_component_data[lastOp.hooks[1].component].pins[1]]
                    .out_state # "Z"

\* what a step puts into the inbox of worker t
Queued(t) == SubSeq(input_ch'[t], Len(input_ch[t]) + 1, Len(input_ch'[t]))

\* C19: the board sends a Step only as the first thing of a half-cycle, to
\* exactly the workers flagged input-dirty before the half-cycle began; every
\* PinChange a half-cycle produces is queued behind that Step and flags its
\* worker for the half-cycle after, the flag staying until the next
\* toggle_clock; and a worker takes its messages in order and sends the Done
\* of a Step before it takes anything queued behind the Step.
C19_NextHalfCycle ==
    [][\A t \in 1..Len(threaded_components) :
         IF Len(input_ch'[t]) >= Len(input_ch[t])
         THEN /\ \A i \in 1..Len(Queued(t)) :
                    Queued(t)[i].type = IF i = 1 /\ clock_pin' # clock_pin
                                           /\ t \in Range(threaded_components_changed)
                                        THEN "Step" ELSE "PinChange"
              /\ (clock_pin' # clock_pin
                      /\ t \in Range(threaded_components_changed))
                    => Queued(t) # <<>>
              /\ (\E i \in 1..Len(Queued(t)) : Queued(t)[i].type = "PinChange")
                    => t \in Range(threaded_components_changed')
              /\ (clock_pin' = clock_pin
                      /\ t \in Range(threaded_components_changed))
                    => t \in Range(threaded_components_changed')
         ELSE /\ input_ch'[t] = Tail(input_ch[t])
              /\ Head(input_ch[t]).type = "Step" =>
                    /\ Len(output_ch') > Len(output_ch)
                    /\ output_ch'[Len(output_ch')] =
                           Done(threaded_components[t].id)]_vars

\* a worker has its Step of the half-cycle under way in its inbox and, queued
\* behind it, a PinChange that another component's output of the same
\* half-cycle produced; the worker is flagged for the next half-cycle
C19_Witness ==
    /\ pc = "collect"
    /\ \E t \in 1..Len(threaded_components) :
          /\ Len(input_ch[t]) >= 2
          /\ input_ch[t][1].type = "Step"
          /\ input_ch[t][2].type = "PinChange"
          /\ t \in Range(threaded_components_changed)

\* C20: simulate(N) leaves 2N half-cycles to run, counted down by one as
\* each ends; a half-cycle flips the clock once, at its start, and calls one
\* edge hook of every threadless component, in the order of
\* threadless_components, rising when the clock has gone high and falling
\* when it has gone low; the clock is low whenever an even number of
\* half-cycles is left, so every simulate call begins with a rising edge,
\* the edges alternate, and N of the 2N are rising.
C20_HalfCycles ==
    /\ [][
           /\ (lastOp'.op = "simulate" /\ budget'.cycles # budget.cycles) =>
               (/\ remaining' = 2 * (budget'.cycles - budget.cycles)
                /\ clock_pin' = clock_pin /\ ~clock_pin)
           /\ (remaining' # remaining /\ remaining # 0) =>
               (remaining' = remaining - 1)
           /\ (clock_pin' # clock_pin) =>
               (/\ pc = "idle" /\ remaining > 0
                /\ clock_pin' = (remaining % 2 = 0)
                /\ pc' = "collect" \/ remaining' = remaining - 1
                /\ Len(lastOp'.hooks) = Len(threadless_components)
                /\ \A c \in 1..Len(threadless_components) :
                      /\ lastOp'.hooks[c].component = threadless_components[c].id
                      /\ lastOp'.hooks[c].edge =
                             IF remaining % 2 = 0 THEN "rising" ELSE "falling")
           /\ (pc = "collect") => (clock_pin' = clock_pin)]_vars
    /\ [](~panicked =>
             clock_pin = (IF pc = "collect" THEN remaining % 2 = 0
                          ELSE remaining % 2 = 1))

\* the first half-cycle of a second simulate(1) call has ended: its hooks
\* were rising-edge calls, one for each of the two threadless components
C20_Witness ==
    /\ lastOp.op = "toggle_clock"
    /\ budget.cycles = 2
    /\ pc = "idle" /\ remaining = 1 /\ time_ns = clock_period
    /\ clock_pin
    /\ Len(lastOp.hooks) = 2
    /\ \A c \in 1..2 : lastOp.hooks[c].edge = "rising"

\* C29: threaded_components_changed never holds an index twice, and a step
\* of the board puts at most one Step into a worker's inbox, and only as it
\* toggles the clock, however many PinChanges went to that worker before.
C29_Dedup ==
    /\ [](\A i, j \in 1..Len(threaded_components_changed) :
             i # j => threaded_components_changed[i]
                          # threaded_components_changed[j])
    /\ [][\A t \in 1..Len(threaded_components) :
             Len(input_ch'[t]) >= Len(input_ch[t]) =>
                 /\ StepCount(Queued(t)) <= 1
                 /\ StepCount(Queued(t)) = 1 =>
                       /\ clock_pin' # clock_pin
                       /\ Cardinality({k \in 1..Len(threaded_components_changed) :
                              threaded_components_changed[k] = t}) = 1]_vars

\* a wire change has gone to both pins of one threaded component in one
\* half-cycle, and the component is in the list once
C29_Witness ==
    /\ lastOp.op = "toggle_clock"
    /\ threaded_components_changed = <<1>>
    /\ Cardinality(NotifiedTo(threaded_components[1].id)) = 2

\* C30: a set_pin call with the state the pin already drives leaves every
\* wire's counter as it was; and a set_pin call after which the pin's wire
\* reads as before dispatches no notification, puts nothing into an inbox,
\* hands no component a pin state and leaves threaded_components_changed
\* alone, whether or not the counter changed.
C30_Frame ==
    [][(lastOp'.op = "set_pin" /\ budget'.calls # budget.calls) =>
         /\ lastOp'.state = lastOp'.old_state => wires' = wires
         /\ lastOp'.new_out = lastOp'.old_out =>
               /\ lastOp'.notified = <<>>
               /\ input_ch' = input_ch
               /\ delivered' = delivered
               /\ threaded_components_changed' = threaded_components_changed
         /\ wires' # wires => lastOp'.state # lastOp'.old_state]_vars

\* set_pin has changed the counter of a wire (a second, weaker driver) and
\* the wire reads what it read before: nobody was notified
C30_Witness ==
    /\ lastOp.op = "set_pin"
    /\ lastOp.state # lastOp.old_state
    /\ lastOp.state \notin {"Z", lastOp.new_out}
    /\ pins[lastOp.pin].wire # NoWire
    /\ lastOp.new_out = lastOp.old_out
    /\ lastOp.new_out # "Z"
    /\ lastOp.notified = <<>>

(***************************************************************************)
(* The short identifiers on their own                                      *)
(***************************************************************************)
\* the number of identifiers taken in one run
MaxVecSize == 2         \* pins of the widest signal of a module
MaxIds == 110

\* values of VcdWriter.wire_id: the one new() leaves, and the one after
\* 94 + 93 * 94 + 87 calls of next_id, seven calls before the third byte
StartIds == {<<33>>, <<126, 120>>}

InitIds == \E wire_id \in StartIds : InitBoard([new EXCEPT !.vcd.wire_id = wire_id])

\* one call of next_id, its result kept as write_scope keeps it, in the $var
\* line of a signal one bit wide
NextId ==
    /\ Len(vcd.f) < MaxIds
    /\ \E r \in {next_id(vcd.wire_id)} :
          vcd' = [vcd EXCEPT !.wire_id = r.wire_id,
                            !.f = Append(@, Line("var", r.result, <<>>, 1))]
    /\ UNCHANGED <<pins, wires, common_component_data, threaded_components,
                   threadless_components, threaded_components_changed,
                   input_ch, output_ch, events, clock_pin, time_ns, remaining,
                   pc, done_counter, panicked, thread, dropping, awaiting,
                   delivered, unstepped, budget, lastOp, ctr, ctr_read, vcd_module, fill_result,
                   led_state>>

SpecIds == InitIds /\ [][NextId]_vars

\* the identifiers of the $var lines of the file, in the order written
VarIds == LET lines == SelectSeq(vcd.f, LAMBDA l : l.kind = "var")
          IN [i \in 1..Len(lines) |-> lines[i].id]

\* a comes before b: shorter first, and byte by byte between equal lengths
IdLess(a, b) ==
    \/ Len(a) < Len(b)
    \/ /\ Len(a) = Len(b)
       /\ \E k \in 1..Len(a) :
             /\ a[k] < b[k]
             /\ \A j \in 1..(k - 1) : a[j] = b[j]

\* C28: the identifiers next_id returns are pairwise distinct, each is
\* non-empty and made of printable ASCII bytes 33..126, and each comes before
\* the next one in the order that compares lengths first and bytes second
C28_ShortIds ==
    /\ \A i \in 1..Len(VarIds) :
          /\ VarIds[i] # <<>>
          /\ \A k \in 1..Len(VarIds[i]) : VarIds[i][k] \in 33..126
    /\ \A i, j \in 1..Len(VarIds) : i # j => VarIds[i] # VarIds[j]
    /\ \A i \in 1..(Len(VarIds) - 1) : IdLess(VarIds[i], VarIds[i + 1])

\* the counter has carried out of its last byte and grown by one byte
C28_Witness ==
    \E i \in 1..(Len(VarIds) - 1) :
        VarIds[i] = <<126>> /\ VarIds[i + 1] = <<33, 33>>

(***************************************************************************)
(* Simulation of boards whose components have signals                      *)
(***************************************************************************)
\* 5e8 / freq, the nanoseconds of a half-cycle, as numerator and denominator:
\* freq = 1e9, 5e8 and 2.5e8 Hz
Periods == {<<1, 2>>, <<1, 1>>, <<2, 1>>}

VcdScripts == {
    \* a threadless component with a module of two signals
    <<CV(1, "probe", ModuleTree(<<VcdTreeSignal(1, "Low"),
                                  VcdTreeSignal(1, "Low")>>))>>,
    \* a threaded component with one signal, on a wire with a driver
    <<TV(1, "probe", SignalTree(1, "Low")), C(1),
      W(<<<<1, 1>>, <<2, 1>>>>)>>,
    \* a driver toggling with the clock, wired to a Led
    <<CV(1, "toggler", ModuleTree(<<>>)), TV(1, "led", SignalTree(1, "Z")),
      W(<<<<1, 1>>, <<2, 1>>>>)>>,
    \* two components driving one wire High and Low, a Led on the same wire
    <<TV(1, "idle", ModuleTree(<<>>)), TV(1, "idle", ModuleTree(<<>>)),
      TV(1, "led", SignalTree(1, "Z")),
      W(<<<<1, 1>>, <<2, 1>>, <<3, 1>>>>), S(1, "High"), S(2, "Low")>> }

InitVcd ==
    \E period \in Periods, script \in VcdScripts :
        InitBoard(Build([new EXCEPT !.vcd.period = period], script, 1))

SpecVcd == InitVcd /\ [][NextSim]_vars

\* the positions of the lines of one kind in the file
LinesOf(kind) == {i \in 1..Len(vcd.f) : vcd.f[i].kind = kind}

\* C24: once simulate has been called the file holds exactly one header and
\* exactly one $dumpvars block, both before every timestamp line, however
\* often simulate is called
C24_Original ==
    /\ Cardinality(LinesOf("version")) <= 1
    /\ Cardinality(LinesOf("dumpvars")) <= 1
    /\ budget.cycles > 0 =>
          /\ Cardinality(LinesOf("version")) = 1
          /\ Cardinality(LinesOf("dumpvars")) = 1
    /\ \A i \in LinesOf("time"), j \in LinesOf("dumpvars") : j < i

\* C22: a half-cycle in which no fill_vcd returned true adds no line to the
\* file, a half-cycle in which one did adds one block that starts with its
\* timestamp line, and when the half-cycle is over no handle is flagged any
\* more, so the flags of one half-cycle write nothing in the next
C22_DirtyBlocks ==
    [][(remaining > 0 /\ remaining' = remaining - 1) =>
          /\ (lastOp'.flagged = {}) => (vcd'.f = vcd.f)
          /\ (lastOp'.flagged # {}) =>
                /\ Len(vcd'.f) > Len(vcd.f) + 1
                /\ SubSeq(vcd'.f, 1, Len(vcd.f)) = vcd.f
                /\ \A i \in (Len(vcd.f) + 1)..Len(vcd'.f) :
                      (vcd'.f[i].kind = "time") <=> (i = Len(vcd.f) + 1)
          /\ \A k \in 1..Len(vcd'.forest) : ~vcd'.forest[k].changed
          /\ vcd'.counter = vcd.counter + 1]_vars

\* a half-cycle without a flagged component has ended, the one before it
\* having written a block that is still the end of the file
C22_Witness ==
    /\ pc = "idle" /\ lastOp.op \in {"toggle_clock", "handle_messages"}
    /\ lastOp.flagged = {}
    /\ vcd.counter > 2
    /\ LinesOf("time") # {}
    /\ vcd.f[Len(vcd.f)].kind = "value"
    /\ \E k \in 1..Len(vcd.forest) : \E s \in 1..Len(vcd.forest[k].tree.signals) :
          vcd.forest[k].tree.signals[s].old_state
              # vcd.forest[k].tree.signals[s].new_state

\* the signals of the trees of writer w
SignalsOf(w) ==
    UNION {Range(w.forest[k].tree.signals) : k \in 1..Len(w.forest)}

\* the value of the last value line for id in file f, <<>> when there is none
LastValue(f, id) ==
    LET at == {i \in 1..Len(f) : f[i].kind = "value" /\ f[i].id = id}
    IN IF at = {} THEN <<>>
       ELSE f[CHOOSE i \in at : \A j \in at : j <= i].val

C25_Original ==
    \A i, j \in LinesOf("time") : (i < j) => (vcd.f[i].t < vcd.f[j].t)

\* the names the components of the board were added under
Names == [k \in 1..Len(vcd.forest) |-> vcd.forest[k].name]

\* the lines of the file after the $end of its first $dumpvars block
AfterDump ==
    LET ends == LinesOf("end")
    IN IF ends = {} THEN <<>>
       ELSE SubSeq(vcd.f, (CHOOSE i \in ends : \A j \in ends : i <= j) + 1,
                   Len(vcd.f))

\* C26: a toggling driver wired to a Led, half-cycles of 2 ns: after one
\* simulate call has run 4 half-cycles the file holds blocks at #2, #4, #6
\* and #8 with the values 1, 0, 1, 0 for the Led's identifier
C26_Original ==
    (/\ Names = <<"toggler", "led">> /\ vcd.period = <<2, 1>>
     /\ vcd.counter = 5 /\ pc = "idle" /\ remaining = 0
     /\ Cardinality(LinesOf("version")) = 1)
    => LET id == vcd.forest[2].tree.signals[1].id
       IN AfterDump = <<Line("time", <<>>, <<>>, 2),
                        Line("value", id, <<"1">>, 0),
                        Line("time", <<>>, <<>>, 4),
                        Line("value", id, <<"0">>, 0),
                        Line("time", <<>>, <<>>, 6),
                        Line("value", id, <<"1">>, 0),
                        Line("time", <<>>, <<>>, 8),
                        Line("value", id, <<"0">>, 0)>>

\* C27: two components driving one wire High and Low and a Led on it: when
\* the first half-cycle is over the Led has been given Error, and the file
\* holds an x for the Led's identifier that no timestamp line other than #0
\* comes before
C27_Original ==
    (/\ Names = <<"idle", "idle", "led">>
     /\ vcd.counter >= 2)
    => /\ led_state[3] = "Error"
       /\ \E j \in LinesOf("value") :
             /\ vcd.f[j].id = vcd.forest[3].tree.signals[1].id
             /\ vcd.f[j].val = <<"x">>
             /\ \A i \in LinesOf("time") : (i < j) => (vcd.f[i].t = 0)

\* the first of the two statements of C27 taken alone
C27_ObservesError ==
    (Names = <<"idle", "idle", "led">> /\ vcd.counter >= 2)
    => led_state[3] = "Error"

(***************************************************************************)
(* The collect phase under two arrival orders                              *)
(***************************************************************************)
\* boards whose threaded components are all due a Step in the first
\* half-cycle: a set_pin has changed the wire they share
OrderScripts == {
    <<T(1), T(1), W(<<<<1, 1>>, <<2, 1>>>>), S(1, "High")>>,
    <<T(1), T(1), W(<<<<1, 1>>, <<2, 1>>>>), S(2, "Low")>>,
    <<T(1), T(1), T(1), W(<<<<1, 1>>, <<2, 1>>, <<3, 1>>>>), S(3, "Low")>>,
    <<T(1), T(1), T(1), W(<<<<1, 1>>, <<2, 1>>, <<3, 1>>>>), S(1, "High")>> }

InitOrder == \E script \in OrderScripts : InitBoard(Build(new, script, 1))

\* the orders in which the workers of a set may come to send
PermsOf(workers) ==
    {p \in [1..Cardinality(workers) -> workers] :
        \A i, j \in 1..Cardinality(workers) : (i # j) => (p[i] # p[j])}

RECURSIVE Arrivals(_, _, _, _)
\* the contents of the shared channel when the workers p[k..] answer their
\* Step one after the other, worker t with the output changes outs[t]
Arrivals(p, outs, k, time) ==
    IF k > Len(p) THEN <<>>
    ELSE Replies(threaded_components[p[k]].id, Step(time), outs[p[k]], -1)
         \o Arrivals(p, outs, k + 1, time)

RECURSIVE HandleAll(_, _, _)
\* the receive loop of Board::handle_messages run over the messages msgs in
\* the order they arrived, until done_counter Done have been received
HandleAll(b, msgs, count) ==
    IF count = 0 \/ msgs = <<>> \/ b.panicked THEN b
    ELSE LET m == Head(msgs)
         IN CASE m.type = "PinChange" ->
                     HandleAll(set_pin(b,
                                  b.common_component_data[m.id].pins[m.pin],
                                  m.state),
                               Tail(msgs), count)
              [] m.type = "PingMeAt" ->
                     HandleAll([b EXCEPT !.events =
                                   @ (+) SetToBag({PingEvent(m.id, m.time)})],
                               Tail(msgs), count)
              [] m.type = "Done" ->
                     HandleAll(IF m.changed
                               THEN [b EXCEPT !.vcd = set_change(@, m.id)]
                               ELSE b,
                               Tail(msgs), count - 1)
              [] OTHER -> [b EXCEPT !.panicked = TRUE]

\* the first half-cycle of a simulation, the workers having taken all that
\* was sent to them before: toggle_clock sends the Steps, every stepped
\* worker answers with its output changes and its Done, and handle_messages
\* receives the answers, once in the order p of the workers and once in the
\* reverse order and once in the order the Steps were sent; the board goes on
\* from the first, the others are kept in lastOp.alt
CollectPair ==
    /\ Idle /\ lastOp.op = "none"
    /\ \E outs \in [1..Len(threaded_components) -> ChangeLists(1)] :
       \E r \in {toggle_clock([Board EXCEPT !.input_ch =
                                   [t \in DOMAIN @ |-> <<>>]],
                              clock_pin, <<>>, time_ns)} :
       \E p \in PermsOf(Range(r.stepped)) :
       \E b1 \in {HandleAll(r.b, Arrivals(p, outs, 1, time_ns),
                            r.done_counter)},
          b2 \in {HandleAll(r.b,
                     Arrivals([k \in 1..Len(p) |-> p[Len(p) + 1 - k]], outs,
                              1, time_ns),
                     r.done_counter)},
          b3 \in {HandleAll(r.b, Arrivals(r.stepped, outs, 1, time_ns),
                            r.done_counter)} :
          /\ Commit([b1 EXCEPT !.vcd = write_step(@)])
          /\ lastOp' = [NoOp EXCEPT !.op = "collect_pair",
                                    !.stepped = r.stepped,
                                    !.notified = b1.notified,
                                    !.alt = [input_ch |-> b2.input_ch,
                                             changed |->
                                               b2.threaded_components_changed,
                                             wires |-> b2.wires,
                                             wires_in_step_order |->
                                               b3.wires,
                                             arrivals |-> <<>>]]
    /\ clock_pin' = ~clock_pin
    /\ time_ns' = time_ns + clock_period
    /\ UNCHANGED <<output_ch, remaining, pc, done_counter, dropping, awaiting,
                   budget, ctr, ctr_read, vcd_module, fill_result, led_state>>

\* what get_output_changes of a component with one pin returns: no change,
\* one, or two in a row
ChangeSeqs ==
    {<<>>} \cup {<<<<1, s>>>> : s \in OutStates}
           \cup {<<<<1, s>>, <<1, u>>>> : s \in OutStates, u \in OutStates}

RECURSIVE Merges(_)
\* the orders in which the messages of the sequences f[t], each sent in its
\* own order by its own worker, can come out of the shared channel
Merges(f) ==
    IF \A t \in DOMAIN f : f[t] = <<>> THEN {<<>>}
    ELSE UNION {{<<Head(f[t])>> \o m : m \in Merges([f EXCEPT ![t] = Tail(@)])} :
                   t \in {u \in DOMAIN f : f[u] # <<>>}}

\* the PinChange messages with which worker t answers a Step
PinChangesOf(t, out, time) ==
    SelectSeq(Replies(threaded_components[t].id, Step(time), out, -1),
              LAMBDA m : m.type = "PinChange")

RECURSIVE DonesOf(_, _)
\* the Done messages of the workers p[k..]
DonesOf(p, k) ==
    IF k > Len(p) THEN <<>>
    ELSE <<Done(threaded_components[p[k]].id)>> \o DonesOf(p, k + 1)

\* the first half-cycle as in CollectPair, each stepped worker answering with
\* up to two PinChange messages: handle_messages receives the PinChange
\* messages in one of the orders the channel can give them, and the Done
\* messages after them; the result of receiving each worker's answer whole,
\* in the order of the Steps, is kept in lastOp.alt
CollectMerged ==
    /\ Idle /\ lastOp.op = "none"
    /\ \E outs \in [1..Len(threaded_components) -> ChangeSeqs] :
       \E r \in {toggle_clock([Board EXCEPT !.input_ch =
                                   [t \in DOMAIN @ |-> <<>>]],
                              clock_pin, <<>>, time_ns)} :
       \E b3 \in {HandleAll(r.b, Arrivals(r.stepped, outs, 1, time_ns),
                            r.done_counter)} :
       \E msgs \in Merges([k \in 1..Len(r.stepped) |->
                              PinChangesOf(r.stepped[k], outs[r.stepped[k]],
                                           time_ns)]) :
       \E b1 \in {HandleAll(r.b, msgs \o DonesOf(r.stepped, 1),
                            r.done_counter)} :
          /\ Commit([b1 EXCEPT !.vcd = write_step(@)])
          /\ lastOp' = [NoOp EXCEPT !.op = "collect_merged",
                                    !.stepped = r.stepped,
                                    !.notified = b1.notified,
                                    !.alt = [input_ch |-> b3.input_ch,
                                             changed |->
                                               b3.threaded_components_changed,
                                             wires |-> b3.wires,
                                             wires_in_step_order |->
                                               b3.wires,
                                             arrivals |-> msgs]]
    /\ clock_pin' = ~clock_pin
    /\ time_ns' = time_ns + clock_period
    /\ UNCHANGED <<output_ch, remaining, pc, done_counter, dropping, awaiting,
                   budget, ctr, ctr_read, vcd_module, fill_result, led_state>>

NextOrder ==
    \/ CollectPair
    \/ CollectMerged

SpecOrder == InitOrder /\ [][NextOrder]_vars

\* C21: whatever the order in which the answers of different workers arrive
\* in the board's channel, every component is sent the same sequence of
\* PinChange and Step messages, and the same components are due a Step in
\* the next half-cycle
C21_Original ==
    (lastOp.op = "collect_pair") =>
        /\ input_ch = lastOp.alt.input_ch
        /\ Range(threaded_components_changed) = Range(lastOp.alt.changed)

\* C36: on every counter, adding Error gives the counter, and so the resolved
\* value, that adding one Low and one High gives, in either order, and
\* removing Error from it gives back the counter, as removing one High and one
\* Low does
C36_ErrorIsLowHigh ==
    /\ add(ctr, "Error") = add(add(ctr, "Low"), "High")
    /\ add(ctr, "Error") = add(add(ctr, "High"), "Low")
    /\ read(add(ctr, "Error")) = read(add(add(ctr, "Low"), "High"))
    /\ remove(add(ctr, "Error"), "Error") = ctr
    /\ remove(add(ctr, "Error"), "Error")
          = remove(remove(add(ctr, "Error"), "High"), "Low")

\* a counter that holds an Error next to a weak pin has been read
C36_Witness ==
    /\ ctr.low = 1 /\ ctr.high = 1 /\ ctr.weak_low = 1
    /\ ctr_read = "Error"

\* every field of counter c1 is at most the same field of counter c0
NoWrap(c1, c0) ==
    /\ c1.low <= c0.low
    /\ c1.high <= c0.high
    /\ c1.weak_low <= c0.weak_low
    /\ c1.weak_high <= c0.weak_high

\* C39: no field of a wire's counter ever wraps below zero: each field stays
\* at most the number of the wire's pins, and the state that a set_pin on a
\* wired pin removes from the counter is one the counter holds, whether the
\* pin was driven before it was wired or after.
C39_NoUnderflow ==
    /\ [](\A w \in 1..Len(wires) :
             NoWrap(wires[w].counter,
                    [low |-> Len(wires[w].pins), high |-> Len(wires[w].pins),
                     weak_low |-> Len(wires[w].pins),
                     weak_high |-> Len(wires[w].pins)]))
    /\ [][(/\ lastOp'.op = "set_pin"
           /\ budget'.calls # budget.calls
           /\ pins[lastOp'.pin].wire \in 1..Len(wires)
           /\ lastOp'.state # lastOp'.old_state) =>
             NoWrap(remove(wires[pins[lastOp'.pin].wire].counter,
                           lastOp'.old_state),
                    wires[pins[lastOp'.pin].wire].counter)]_vars

\* a set_pin, the third call on the board, has taken away a state that a
\* wired pin drove
C39_Witness ==
    /\ lastOp.op = "set_pin"
    /\ lastOp.old_state \in {"Low", "High", "Error"}
    /\ lastOp.state = "Z"
    /\ pins[lastOp.pin].wire \in 1..Len(wires)
    /\ budget.calls >= 3
    /\ ~panicked

\* the counter that zero becomes by adding the states that the pins of list
\* drive, counted by state
SeedCounter(list) ==
    LET out(k) == pins[common_component_data[list[k][1]].pins[list[k][2]]].out_state
    IN [low |-> Cardinality({k \in 1..Len(list) : out(k) \in {"Low", "Error"}}),
        high |-> Cardinality({k \in 1..Len(list) : out(k) \in {"High", "Error"}}),
        weak_low |-> Cardinality({k \in 1..Len(list) : out(k) = "WeakLow"}),
        weak_high |-> Cardinality({k \in 1..Len(list) : out(k) = "WeakHigh"})]

\* C31: an add_wire that returns leaves a new wire whose counter counts the
\* state each listed pin drove at the call, states driven before the wiring
\* included, and hands the value the new wire reads to every listed pin of
\* every listed component, in the order of the list.
C31_SeedAndDeliver ==
    [][(lastOp'.op = "add_wire" /\ budget'.calls # budget.calls /\ ~panicked') =>
          \E c \in {SeedCounter(lastOp'.list)} :
          \E wire_state \in {read(c)} :
             /\ Len(wires') = Len(wires) + 1
             /\ wires'[Len(wires')].counter = c
             /\ lastOp'.notified =
                   [k \in 1..Len(lastOp'.list) |->
                       [component |-> lastOp'.list[k][1],
                        pin |-> lastOp'.list[k][2],
                        state |-> wire_state]]
             /\ \A k \in 1..Len(lastOp'.list) :
                   delivered'[common_component_data[lastOp'.list[k][1]]
                                 .pins[lastOp'.list[k][2]]]
                      = wire_state]_vars

\* a wire over two pins has been added after one of them was driven, and both
\* pins were handed the driven value
C31_Witness ==
    /\ lastOp.op = "add_wire"
    /\ ~panicked
    /\ Len(lastOp.list) = 2
    /\ Len(lastOp.notified) = 2
    /\ lastOp.notified[2].state \in {"Low", "High"}
    /\ wires[Len(wires)].counter # ZeroCounter

\* C37: with the same output changes from each worker in a half-cycle, every
\* wire reads the same at the end of the collect phase whatever the order in
\* which the workers' PinChange messages reach the board: the order taken,
\* its reverse and the order in which the Steps were sent leave every wire
\* with the same counter and the same resolved value, and so does every
\* interleaving of the workers' sequences of up to two changes.
C37_Commute ==
    (lastOp.op \in {"collect_pair", "collect_merged"}) =>
        /\ Len(lastOp.alt.wires) = Len(wires)
        /\ Len(lastOp.alt.wires_in_step_order) = Len(wires)
        /\ \A w \in 1..Len(wires) :
              /\ WireRead(lastOp.alt.wires[w]) = WireRead(wires[w])
              /\ WireRead(lastOp.alt.wires_in_step_order[w]) = WireRead(wires[w])
              /\ lastOp.alt.wires[w].counter = wires[w].counter
              /\ lastOp.alt.wires_in_step_order[w].counter = wires[w].counter

\* a change of one worker has arrived between the two changes of another, the
\* components having been sent other pin changes than when each answer comes
\* whole, and the wire's pins drive against each other at the end
C37_Witness ==
    /\ lastOp.op = "collect_merged"
    /\ ~panicked
    /\ Len(lastOp.alt.arrivals) >= 3
    /\ lastOp.alt.arrivals[1].id = lastOp.alt.arrivals[3].id
    /\ lastOp.alt.arrivals[1].id # lastOp.alt.arrivals[2].id
    /\ lastOp.alt.input_ch # input_ch
    /\ \E w \in 1..Len(wires) : WireRead(wires[w]) = "Error"

\* C38: the channel to the board never holds anything but PinChange,
\* PingMeAt and Done messages, and the message handle_messages takes off it
\* is one of these three, so the branch that panics on Step, ClockRising,
\* ClockFalling or Die is never taken.
C38_InboxKinds ==
    /\ [](\A i \in 1..Len(output_ch) :
             output_ch[i].type \in {"PinChange", "PingMeAt", "Done"})
    /\ [][(pc = "collect" /\ output_ch # <<>> /\ output_ch' = Tail(output_ch))
             => Head(output_ch).type \in {"PinChange", "PingMeAt", "Done"}]_vars

\* a worker's PinChange, PingMeAt and Done wait in the channel together
C38_Witness ==
    /\ pc = "collect"
    /\ \E i, j, k \in 1..Len(output_ch) :
          /\ i < j /\ j < k
          /\ output_ch[i].type = "PinChange"
          /\ output_ch[j].type = "PingMeAt"
          /\ output_ch[k].type = "Done"

\* C32: every PinChange and PingMeAt in the channel to the board has a Done
\* of the same worker behind it, and two PingMeAt of one worker have a Done
\* of that worker between them; the board takes the messages in order, and
\* taking a PinChange stores the state in the pin, taking a PingMeAt puts the
\* event into the queue, so both are done before the Done behind them is
\* counted.
C32_BeforeDone ==
    /\ [](\A i \in 1..Len(output_ch) :
             output_ch[i].type \in {"PinChange", "PingMeAt"} =>
                \E j \in (i + 1)..Len(output_ch) :
                   /\ output_ch[j].type = "Done"
                   /\ output_ch[j].id = output_ch[i].id)
    /\ [](\A i, j \in 1..Len(output_ch) :
             (/\ i < j
              /\ output_ch[i].type = "PingMeAt"
              /\ output_ch[j].type = "PingMeAt"
              /\ output_ch[i].id = output_ch[j].id) =>
                \E k \in (i + 1)..(j - 1) :
                   /\ output_ch[k].type = "Done"
                   /\ output_ch[k].id = output_ch[i].id)
    /\ [][(pc = "collect" /\ output_ch # <<>> /\ output_ch' = Tail(output_ch)) =>
             /\ Head(output_ch).type = "PinChange" =>
                   /\ done_counter' = done_counter
                   /\ pins'[common_component_data[Head(output_ch).id]
                               .pins[Head(output_ch).pin]].out_state
                         = Head(output_ch).state
             /\ Head(output_ch).type = "PingMeAt" =>
                   /\ done_counter' = done_counter
                   /\ events' = events (+) SetToBag({PingEvent(Head(output_ch).id,
                                                    Head(output_ch).time)})
             /\ Head(output_ch).type = "Done" =>
                   done_counter' = done_counter - 1]_vars

\* the board has counted the Done of a worker whose output change is stored
\* in its pin and whose ping is in the queue
C32_Witness ==
    /\ lastOp.op = "handle_messages"
    /\ pc = "idle"
    /\ budget.outputs >= 1
    /\ budget.pings >= 1
    /\ BagCardinality(events) >= 1
    /\ \E i \in 1..Len(pins) : pins[i].out_state # "Z"

\* C33: while the board collects, the Done messages it still waits for are
\* as many as the Steps of this half-cycle that have no Done received yet,
\* and at least one; a half-cycle that dispatched no Step is over at once;
\* and whenever the board is not collecting, its inbox is empty, no Step is
\* waiting in a worker's inbox and no Step is unanswered, so each half-cycle
\* starts with an empty inbox.
C33_CollectEnds ==
    /\ []((pc = "collect") =>
             (done_counter > 0 /\ done_counter = Cardinality(awaiting)))
    /\ []((pc = "idle") =>
             /\ done_counter = 0
             /\ awaiting = {}
             /\ output_ch = <<>>
             /\ \A t \in 1..Len(input_ch) : StepCount(input_ch[t]) = 0)
    /\ [][(clock_pin' # clock_pin) =>
             /\ output_ch = <<>>
             /\ done_counter' = Len(lastOp'.stepped)
             /\ (pc' = "idle") <=> (lastOp'.stepped = <<>>)]_vars
    /\ [][(pc = "collect" /\ pc' = "idle") =>
             /\ Head(output_ch).type = "Done"
             /\ done_counter = 1
             /\ output_ch' = <<>>]_vars

\* a collect phase has ended on a Done, after the first half-cycle, with the
\* board's inbox and a running worker's inbox empty
C33_Witness ==
    /\ pc = "idle"
    /\ lastOp.op = "handle_messages"
    /\ time_ns > 0
    /\ output_ch = <<>>
    /\ \E t \in 1..Len(input_ch) : input_ch[t] = <<>> /\ thread[t] = "running"
    /\ ~panicked

\* C34: a worker fills its tree only while it handles a Step, that is from
\* the Step's arrival in its inbox until its Done is sent.  Whenever the
\* writer runs (write_header writes the header, write_step advances the
\* counter) no worker has a Step in its inbox before or after, every Step
\* sent has its Done in the board's inbox or received, and none is unanswered
\* afterwards; and a worker fills its tree only while the board collects.
C34_NoOverlap ==
    /\ [][(vcd'.counter # vcd.counter \/ Len(vcd'.f) # Len(vcd.f)) =>
             /\ \A t \in 1..Len(input_ch) :
                   StepCount(input_ch[t]) = 0 /\ StepCount(input_ch'[t]) = 0
             /\ \A t \in awaiting :
                   \E i \in 1..Len(output_ch) :
                      /\ output_ch[i].type = "Done"
                      /\ output_ch[i].id = threaded_components[t].id
             /\ awaiting' = {}]_vars
    /\ [][(\E t \in 1..Len(input_ch) :
               StepCount(input_ch'[t]) < StepCount(input_ch[t])) =>
             /\ pc = "collect"
             /\ vcd'.counter = vcd.counter
             /\ vcd'.f = vcd.f]_vars

\* the writer has written a time block with the value a worker filled into
\* its tree in the half-cycle that has just ended
C34_Witness ==
    /\ lastOp.op = "handle_messages"
    /\ pc = "idle"
    /\ lastOp.flagged # {}
    /\ Len(vcd.f) >= 2
    /\ vcd.f[Len(vcd.f) - 1].kind = "time"
    /\ ~panicked

(***************************************************************************)
(* PinVec and the signals of a module                                      *)
(***************************************************************************)
\* bit k of val
Bit(val, k) == (val \div (2 ^ k)) % 2 = 1

\* the three variants of PinVec; the derived == compares the variant and its
\* fields, the fields a variant does not have are held at one value here
SinglePin(state) ==
    [tag |-> "SinglePin", size |-> 1, bits |-> 0, state |-> state]
SmallLogical(size, bits) ==
    [tag |-> "SmallLogical", size |-> size, bits |-> bits, state |-> "Z"]
Repeated(size, state) ==
    [tag |-> "Repeated", size |-> size, bits |-> 0, state |-> state]

\* PinVec::new
PinVec_new(size, val) ==
    IF size = 1 THEN SinglePin(val) ELSE Repeated(size, val)

\* PinVec::init_logical
init_logical(size, val) ==
    IF size = 1 THEN SinglePin(IF Bit(val, 0) THEN "High" ELSE "Low")
    ELSE SmallLogical(size, val)

\* PinVec::len
PinVec_len(vec) == IF vec.tag = "SinglePin" THEN 1 ELSE vec.size

\* what PinVec::iter yields, from position len - 1 down to 0
PinVec_iter(vec) ==
    [i \in 1..PinVec_len(vec) |->
        CASE vec.tag = "SinglePin" -> vec.state
          [] vec.tag = "SmallLogical" ->
                IF Bit(vec.bits, PinVec_len(vec) - i) THEN "High" ELSE "Low"
          [] vec.tag = "Repeated" -> vec.state]

\* the values a filler hands to a signal size pins wide: a PinState or a
\* repeated one, or a number converted by init_logical or to_pin_vec
VecsOf(size) ==
    {PinVec_new(size, s) : s \in PinState}
        \cup {init_logical(size, v) : v \in 0..(2 ^ size - 1)}

\* VcdTreeSignal::new with its two PinVec as they are held
VcdTreeSignal_new(size, val) ==
    [size |-> size, id |-> <<>>, old_state |-> PinVec_new(size, val),
     new_state |-> PinVec_new(size, val)]

\* VcdTreeSignal::update: the signal after it and the bool it returns
VcdTreeSignal_update(signal, vec) ==
    [signal |-> [signal EXCEPT !.old_state = signal.new_state,
                               !.new_state = vec],
     result |-> signal.new_state # vec]

\* VcdTreeModule::update_subsignal on child index, a signal
update_subsignal(children, index, vec) ==
    LET u == VcdTreeSignal_update(children[index], vec)
    IN [children |-> [children EXCEPT ![index] = u.signal],
        result |-> u.result]

\* fill_module of a component with two signals: r = update_subsignal(0, ..);
\* r |= update_subsignal(1, ..); r
fill_module(children, v1, v2) ==
    LET r1 == update_subsignal(children, 1, v1)
        r2 == update_subsignal(r1.children, 2, v2)
    IN [children |-> r2.children,
        results |-> <<r1.result, r2.result>>,
        r |-> (r1.result \/ r2.result)]

\* init_vcd_module adding a signal one pin wide and one size pins wide
InitVcdModule(size, val1, val2) ==
    /\ vcd_module = <<>>
    /\ vcd_module' = <<VcdTreeSignal_new(1, val1), VcdTreeSignal_new(size, val2)>>
    /\ fill_result' = NoFill
    /\ UNCHANGED <<ctr, ctr_read, boardVars>>

\* one fill of the module
FillModule ==
    /\ vcd_module # <<>>
    /\ \E v1 \in VecsOf(vcd_module[1].size), v2 \in VecsOf(vcd_module[2].size) :
       \E f \in {fill_module(vcd_module, v1, v2)} :
          /\ vcd_module' = f.children
          /\ fill_result' = [op |-> "fill", results |-> f.results, r |-> f.r]
    /\ UNCHANGED <<ctr, ctr_read, boardVars>>

NextPinVec ==
    \/ \E size \in 2..MaxVecSize, val1 \in PinState, val2 \in PinState :
          InitVcdModule(size, val1, val2)
    \/ FillModule

SpecPinVec == InitBoard(new) /\ [][NextPinVec]_vars

\* C35 as stated: the update of a signal returns true exactly when the new
\* value, read as a sequence of pin states, differs from the value before,
\* whatever variant of PinVec holds either, and the fill of a module returns
\* the OR of its children's results.
C35_Original ==
    (fill_result.op = "fill") =>
        /\ \A k \in 1..Len(vcd_module) :
              fill_result.results[k]
                 <=> (PinVec_iter(vcd_module[k].new_state)
                         # PinVec_iter(vcd_module[k].old_state))
        /\ fill_result.r <=> (\E k \in 1..Len(vcd_module) :
                                 fill_result.results[k])

\* what the code computes: the update of a signal returns true exactly when
\* the two PinVec differ as held, variant and fields, and the fill of a
\* module returns the OR of its children's results
C35_AsHeld ==
    (fill_result.op = "fill") =>
        /\ \A k \in 1..Len(vcd_module) :
              fill_result.results[k]
                 <=> (vcd_module[k].new_state # vcd_module[k].old_state)
        /\ fill_result.r <=> (\E k \in 1..Len(vcd_module) :
                                 fill_result.results[k])

====
